---- MODULE Spec2Model ----
(***************************************************************************)
(* A model of one sentinel node: the LoRa mesh transport (LoraMesh, with   *)
(* its receive and heartbeat threads and the node table) and the alert     *)
(* state machine driven by SentinelCore::run.                              *)
(*                                                                         *)
(* Time is the steady clock in whole seconds.  Every region of code that   *)
(* runs under nodes_mutex_ is one atomic action; the main thread's         *)
(* updateAlertState / evaluateConsensus / triggerAlert is cut at each      *)
(* acquisition of nodes_mutex_, because the receive and the heartbeat      *)
(* thread can run between two acquisitions.                                *)
(***************************************************************************)
EXTENDS Integers, Sequences, FiniteSets, TLC

(* ------------------------------ bounds -------------------------------- *)

\* number of peer nodes within radio range
NumPeers == 2

\* the steady clock stops advancing at MaxTime
MaxTime == 1

\* the longest payload of the messages handed to the codec on its own, next
\* to one payload of the full MAX_PAYLOAD_SIZE bytes
MaxPayload == 2

(* ------------------------- program constants -------------------------- *)

MSG_TYPE_HEARTBEAT == 1

MSG_TYPE_DETECTION == 2

MSG_TYPE_ACK == 3

MAX_PAYLOAD_SIZE == 64

\* main(): config.node_id = 1
NodeId == 1

\* destination of every frame this node sends
BROADCAST == 255

\* config.consensus_threshold = 0.6f, kept as the fraction 6/10.  The code
\* compares float(detecting)/total with the float 0.6f; for totals below 2^8
\* two different fractions are further apart than the float rounding error and
\* n/d = 6/10 rounds to the same float as the literal, so the float comparison
\* agrees with the exact one.
ThresholdNum == 6

ThresholdDen == 10

IDLE == "IDLE"

PENDING == "PENDING"

ALERT == "ALERT"

Peers == (NodeId + 1)..(NodeId + NumPeers)

Times == 0..MaxTime

VARIABLES
    now,                    \* std::chrono::steady_clock::now(), seconds
    in_range,               \* the ids of the nodes whose frames reach the radio
    config_,                \* Config / LoraConfig, fixed at construction
    g_running,              \* sentinel_core.cpp: static volatile bool g_running
    pc,                     \* position of the main thread
    detection_data_,        \* SentinelCore::detection_data_, as the value of
                            \* sensor_detected || vision_detected: the two
                            \* flags are read only through this disjunction
    alert_state_,           \* SentinelCore::alert_state_
    consensus_start_time_,  \* SentinelCore::consensus_start_time_
    alert_start_time_,      \* SentinelCore::alert_start_time_
    total_nodes,            \* evaluateConsensus: total_nodes (0: not live)
    detecting_nodes,        \* evaluateConsensus: detecting_nodes
    is_initialized_,        \* LoraMesh::is_initialized_
    detection_callback_,    \* LoraMesh::detection_callback_ is set
    active_nodes_,          \* LoraMesh::active_nodes_ : node id -> NodeInfo
    rx_pc,                  \* position of the receive thread
    hb_pc,                  \* position of the heartbeat thread
    hb_wake,                \* the time the heartbeat thread's sleep_for ends
    tick,                   \* what the current / last updateAlertState did
    send_mutex_,            \* LoraMesh::send_mutex_: the thread that holds it
    link,                   \* the frame sendMessage serialised last
    rx,                     \* receiveLoop: buffer, msg and the callback made
                            \* in the current pass of the loop body
    pruned,                 \* the ids cleanupStaleNodes logged as timed out
                            \* in its last call
    codec,                  \* serializeMessage / deserializeMessage called on
                            \* their own: argument, result and log lines
    nodes_mutex_,           \* LoraMesh::nodes_mutex_: the thread that holds it
    callback_reenters,      \* the registered detection callback calls
                            \* getActiveNodeCount on the mesh that invokes it
    pair,                   \* a peer's node table, the last two Detection
                            \* messages this node has broadcast to it, and
                            \* the call of updateAlertState before the last
    sensor                  \* an MQ2Sensor and the device behind it

vars == <<now, in_range, config_, g_running, pc, detection_data_, alert_state_,
          consensus_start_time_, alert_start_time_, total_nodes,
          detecting_nodes, is_initialized_, detection_callback_,
          active_nodes_, rx_pc, hb_pc, hb_wake, tick, send_mutex_, link,
          rx, pruned, codec, nodes_mutex_, callback_reenters, pair, sensor>>

\* the state of the specifications that run one part of the program on its
\* own; every action of the program leaves it alone
auxVars == <<codec, nodes_mutex_, callback_reenters, pair, sensor>>

\* nodes_mutex_ and what decides whether its holder asks for it again
lockVars == <<nodes_mutex_, callback_reenters>>

\* the state of the running program
progVars == <<now, in_range, config_, g_running, pc, detection_data_,
              alert_state_, consensus_start_time_, alert_start_time_,
              total_nodes, detecting_nodes, is_initialized_,
              detection_callback_, active_nodes_, rx_pc, hb_pc, hb_wake, tick,
              send_mutex_, link, rx, pruned>>

\* The state that only the steps inside sendMessage and inside one pass of
\* receiveLoop read or write.  The actions of Next take a whole pass of a
\* loop as one step and leave these alone; the actions of NextMesh take
\* LoraMesh's methods lock by lock and record them.
fineVars == <<send_mutex_, link, rx, pruned>>

coreVars == <<alert_state_, consensus_start_time_, alert_start_time_>>

evalVars == <<total_nodes, detecting_nodes>>

meshThreadVars == <<rx_pc, hb_pc, hb_wake>>

(* --------------------------- message codec ---------------------------- *)

RECURSIVE XorBits(_, _, _)
XorBits(a, b, n) ==
    IF n = 0 THEN 0
    ELSE (((a % 2) + (b % 2)) % 2) + 2 * XorBits(a \div 2, b \div 2, n - 1)

\* uint8_t ^ uint8_t
Xor8(a, b) == XorBits(a, b, 8)

RECURSIVE XorRange(_, _, _)
\* buffer[lo] ^ ... ^ buffer[hi] (TLA+ positions); ^ is associative, so the
\* range is folded by halves, which keeps the evaluation shallow for a frame
\* of MAX_PAYLOAD_SIZE + 5 bytes
XorRange(buffer, lo, hi) ==
    IF lo > hi THEN 0
    ELSE IF lo = hi THEN buffer[lo]
    ELSE LET mid == (lo + hi) \div 2
         IN  Xor8(XorRange(buffer, lo, mid), XorRange(buffer, mid + 1, hi))

\* a checksum loop that starts at buffer[1]
Checksum_SkipsType(buffer, n) == XorRange(buffer, 2, n)

\* the XOR of buffer[0 .. n-1] (TLA+ positions 1..n): the checksum loops of
\* serializeMessage and deserializeMessage
Checksum(buffer, n) == XorRange(buffer, 1, n)

\* A MeshMessage.  payload is payload[0 .. payload_len-1]; p0 is the array
\* cell payload[0], which processMessage reads whatever payload_len is.
Message(type, source_id, destination_id, payload, p0) ==
    [type |-> type, source_id |-> source_id, destination_id |-> destination_id,
     payload_len |-> Len(payload), payload |-> payload, p0 |-> p0]

\* serializeMessage writing destination_id before source_id
SerializeMessage_SwappedIds(msg) ==
    LET body == <<msg.type, msg.destination_id, msg.source_id, msg.payload_len>>
                \o msg.payload
    IN  Append(body, Checksum(body, Len(body)))

\* LoraMesh::serializeMessage: the bytes written to buffer
SerializeMessage(msg) ==
    LET body == <<msg.type, msg.source_id, msg.destination_id, msg.payload_len>>
                \o msg.payload
    IN  Append(body, Checksum(body, Len(body)))

\* The values an indeterminate byte (an uninitialised field of a MeshMessage,
\* a cell of the receive buffer that receiveData did not write) is drawn
\* from.  As a type it is a heartbeat or a detection, as a source it is this
\* node or a peer, as payload[0] it is 1 (detecting) or not 1.
IndetBytes == {MSG_TYPE_HEARTBEAT, MSG_TYPE_DETECTION}

\* buffer[i] (C index) of a receive buffer holding the len bytes of frame:
\* the cells from len on were not written by receiveData
BufferCell(frame, i) ==
    IF i + 1 <= Len(frame) THEN {frame[i + 1]} ELSE IndetBytes

\* deserializeMessage returning the message as constructed when the checksum
\* does not match
DeserializeMessage_DropsBadChecksum(frame) ==
    IF /\ Len(frame) >= 5
       /\ frame[4] <= MAX_PAYLOAD_SIZE
       /\ Len(frame) >= frame[4] + 5
       /\ frame[frame[4] + 5] = Checksum(frame, frame[4] + 4)
    THEN {Message(frame[1], frame[2], frame[3],
                  SubSeq(frame, 5, 4 + frame[4]),
                  IF frame[4] = 0 THEN 0 ELSE frame[5])}
    ELSE {Message(t, s, BROADCAST, <<>>, p) :
              t \in IndetBytes, s \in IndetBytes, p \in IndetBytes}

\* LoraMesh::deserializeMessage: the set of messages it can return for the
\* received bytes (more than one where it returns indeterminate fields)
DeserializeMessage(frame) ==
    IF Len(frame) < 5
    THEN \* msg is returned as constructed; no code reads destination_id,
         \* so one value stands for it
         {Message(t, s, BROADCAST, <<>>, p) :
              t \in IndetBytes, s \in IndetBytes, p \in IndetBytes}
    ELSE IF frame[4] > MAX_PAYLOAD_SIZE
    THEN {Message(frame[1], frame[2], frame[3], <<>>, p) : p \in IndetBytes}
    ELSE IF frame[4] = 0
    THEN {Message(frame[1], frame[2], frame[3], <<>>, p) : p \in IndetBytes}
    ELSE IF 4 + frame[4] <= Len(frame)
    THEN {Message(frame[1], frame[2], frame[3],
                  SubSeq(frame, 5, 4 + frame[4]), frame[5])}
    ELSE \* memcpy reads past the received bytes
         {Message(frame[1], frame[2], frame[3],
                  SubSeq(frame, 5, Len(frame))
                      \o [i \in 1..(4 + frame[4] - Len(frame)) |-> p],
                  p0) :
              p \in IndetBytes, p0 \in BufferCell(frame, 4)}

\* deserializeMessage without the checksum comparison
DecodeLog_NoVerify(frame) ==
    IF Len(frame) < 5 THEN {<<"Invalid message length">>}
    ELSE IF frame[4] > MAX_PAYLOAD_SIZE THEN {<<"Payload too large">>}
    ELSE {<<>>}

\* The lines deserializeMessage logs for the received bytes: the length
\* error, the payload error, or the checksum warning when buffer[offset]
\* differs from the XOR of buffer[0 .. offset-1], offset = 4 + payload_len.
\* Where offset is not below the number of bytes received, the cells
\* compared were not written by receiveData and either outcome can occur.
DecodeLog(frame) ==
    IF Len(frame) < 5 THEN {<<"Invalid message length">>}
    ELSE IF frame[4] > MAX_PAYLOAD_SIZE THEN {<<"Payload too large">>}
    ELSE IF 4 + frame[4] + 1 <= Len(frame)
    THEN {IF frame[4 + frame[4] + 1] # Checksum(frame, 4 + frame[4])
          THEN <<"Checksum mismatch">> ELSE <<>>}
    ELSE {<<"Checksum mismatch">>, <<>>}

\* the codec has not been called
NoCodec == [stage |-> "idle", m |-> <<>>, frame |-> <<>>, flipped |-> 0,
            msg |-> <<>>, log |-> <<>>]

(* ----------------------------- node table ----------------------------- *)

\* the empty std::map
EmptyTable == [n \in {} |-> [detecting |-> FALSE, last_seen |-> 0]]

\* active_nodes_[id] on a missing key value-initialises the NodeInfo
NodeInfoDefault == [detecting |-> FALSE, last_seen |-> 0]

\* mutant: the test of msg.source_id against node_id_ is missing
ProcessMessage_NoSelfCheck(nodes, msg, t) ==
    LET old  == IF msg.source_id \in DOMAIN nodes
                THEN nodes[msg.source_id] ELSE NodeInfoDefault
        node == [detecting |-> IF msg.type = MSG_TYPE_DETECTION
                               THEN msg.p0 = 1 ELSE old.detecting,
                 last_seen |-> t]
    IN  [n \in DOMAIN nodes \cup {msg.source_id} |->
             IF n = msg.source_id THEN node ELSE nodes[n]]

\* mutant: a message that is not a detection clears the detecting flag
ProcessMessage_LivenessResets(nodes, msg, t) ==
    IF msg.source_id = NodeId THEN nodes
    ELSE LET node == [detecting |-> IF msg.type = MSG_TYPE_DETECTION
                                    THEN msg.p0 = 1 ELSE FALSE,
                      last_seen |-> t]
         IN  [n \in DOMAIN nodes \cup {msg.source_id} |->
                  IF n = msg.source_id THEN node ELSE nodes[n]]

\* LoraMesh::processMessage: the node table after the message
ProcessMessage(nodes, msg, t) ==
    IF msg.source_id = NodeId THEN nodes
    ELSE LET old  == IF msg.source_id \in DOMAIN nodes
                     THEN nodes[msg.source_id] ELSE NodeInfoDefault
             node == [detecting |-> IF msg.type = MSG_TYPE_DETECTION
                                    THEN msg.p0 = 1 ELSE old.detecting,
                      last_seen |-> t]
         IN  [n \in DOMAIN nodes \cup {msg.source_id} |->
                  IF n = msg.source_id THEN node ELSE nodes[n]]

\* mutant: a record is stale as soon as the timeout is reached
IsStale_AtTimeout(t, last_seen, timeout) == t - last_seen >= timeout

\* the comparison of cleanupStaleNodes
IsStale(t, last_seen, timeout) == t - last_seen > timeout

\* LoraMesh::cleanupStaleNodes
CleanupStaleNodes(nodes, t, timeout) ==
    LET keep == {n \in DOMAIN nodes : ~IsStale(t, nodes[n].last_seen, timeout)}
    IN  [n \in keep |-> nodes[n]]

\* LoraMesh::getActiveNodeCount
GetActiveNodeCount(nodes) == Cardinality(DOMAIN nodes)

RECURSIVE CountDetecting(_, _)
CountDetecting(nodes, ids) ==
    IF ids = {} THEN 0
    ELSE LET n == CHOOSE x \in ids : TRUE
         IN  (IF nodes[n].detecting THEN 1 ELSE 0)
             + CountDetecting(nodes, ids \ {n})

\* LoraMesh::getDetectingNodeCount
GetDetectingNodeCount(nodes) == CountDetecting(nodes, DOMAIN nodes)

(* --------------------------- the radio link --------------------------- *)

\* LoraMesh::broadcastDetection: the frame sendMessage serialises
DetectionFrame(detected) ==
    SerializeMessage(Message(MSG_TYPE_DETECTION, NodeId, BROADCAST,
                             <<IF detected THEN 1 ELSE 0>>,
                             IF detected THEN 1 ELSE 0))

\* mutant: the frame is built and never sent
BroadcastDetection_Dropped(sent, detected) == sent

\* LoraMesh::broadcastDetection: the frames sent so far, and this one
BroadcastDetection(sent, detected) == Append(sent, DetectionFrame(detected))

\* mutant: the heartbeat is addressed to node 0 instead of the broadcast
\* address
HeartbeatFrame_Unicast ==
    SerializeMessage(Message(MSG_TYPE_HEARTBEAT, NodeId, 0, <<>>, 0))

\* LoraMesh::heartbeatLoop: the frame of one heartbeat
HeartbeatFrame ==
    SerializeMessage(Message(MSG_TYPE_HEARTBEAT, NodeId, BROADCAST, <<>>, 0))

\* one more node, within range only in the quorum scenario (SpecQuorum)
FarPeer == NodeId + NumPeers + 1

Senders == Peers \cup {FarPeer, NodeId}

\* What receiveData can deliver: well-formed frames of every type from every
\* node, heartbeat and detection frames carrying this node's own id, a frame
\* of unknown type, a frame with a wrong checksum, a frame that is too short
\* and one that declares more than MAX_PAYLOAD_SIZE bytes.
Frames ==
    {SerializeMessage(Message(MSG_TYPE_HEARTBEAT, s, BROADCAST, <<>>, 0)) :
         s \in Senders}
    \cup {SerializeMessage(Message(MSG_TYPE_DETECTION, s, BROADCAST, <<b>>, b)) :
              s \in Senders, b \in {0, 1}}
    \cup {SerializeMessage(Message(MSG_TYPE_ACK, s, NodeId, <<>>, 0)) :
              s \in Senders}
    \cup {SerializeMessage(Message(MSG_TYPE_ACK + 1, NodeId + 1, BROADCAST,
                                   <<>>, 0))}
    \cup {<<MSG_TYPE_DETECTION, NodeId + 1, BROADCAST, 1, 1, 0>>}
    \cup {<<MSG_TYPE_DETECTION>>}
    \cup {<<MSG_TYPE_DETECTION, NodeId + 1, BROADCAST, MAX_PAYLOAD_SIZE + 1, 1>>}

(* ------------------------- the alert machine -------------------------- *)

\* updateAlertState: local_detection
LocalDetection(data) == data

\* mutant: the window test ignores the configured timeout
ConsensusWindowExpired_NoWindow(t, start, timeout) == t - start >= 0

\* updateAlertState: elapsed >= seconds(consensus_timeout_sec)
ConsensusWindowExpired(t, start, timeout) == t - start >= timeout

\* mutant: the dwell test is strict
AlertExpired_Strict(t, start, duration) == t - start > duration

\* updateAlertState: elapsed >= seconds(alert_duration_sec)
AlertExpired(t, start, duration) == t - start >= duration

\* mutant: the node itself is left out of the total
TotalNodes_NoSelf(active) == active

\* evaluateConsensus: total_nodes
TotalNodes(active) == active + 1

\* mutant: the node's own detection is left out of the count
DetectingNodes_NoSelf(detecting, data) == detecting

\* evaluateConsensus: detecting_nodes
DetectingNodes(detecting, data) ==
    detecting + (IF LocalDetection(data) THEN 1 ELSE 0)

\* mutant: the ratio is computed by integer division (the cast is missing)
ConsensusReached_IntDiv(detecting, total) ==
    (detecting \div total) * ThresholdDen >= ThresholdNum

\* evaluateConsensus: consensus_ratio >= config_.consensus_threshold
ConsensusReached(detecting, total) ==
    detecting * ThresholdDen >= ThresholdNum * total

\* triggerAlert: the "Detecting Nodes" figure it logs
ReportedDetectingNodes(detecting) == detecting + 1

\* mutant: consensus_start_time_ is not set again when PENDING is re-entered
EnterPending_KeepsStart(state, start, t) ==
    IF state = IDLE
    THEN [state |-> PENDING, start |-> start,
          bcasts |-> BroadcastDetection(<<>>, TRUE)]
    ELSE [state |-> state, start |-> start, bcasts |-> <<>>]

\* updateAlertState, lines 139-146: the state and consensus_start_time_
\* after the IDLE test of the local_detection branch, and the broadcasts
EnterPending(state, start, t) ==
    IF state = IDLE
    THEN [state |-> PENDING, start |-> t,
          bcasts |-> BroadcastDetection(<<>>, TRUE)]
    ELSE [state |-> state, start |-> start, bcasts |-> <<>>]

\* mutant: PENDING returns to IDLE without the broadcast
ClearOnNoDetection_Silent(state, t, astart, duration) ==
    IF state = ALERT
    THEN IF AlertExpired(t, astart, duration)
         THEN [state |-> IDLE, bcasts |-> BroadcastDetection(<<>>, FALSE)]
         ELSE [state |-> state, bcasts |-> <<>>]
    ELSE IF state = PENDING
    THEN [state |-> IDLE, bcasts |-> <<>>]
    ELSE [state |-> state, bcasts |-> <<>>]

\* mutant: the PENDING case is missing
ClearOnNoDetection_AlertOnly(state, t, astart, duration) ==
    IF state = ALERT
    THEN IF AlertExpired(t, astart, duration)
         THEN [state |-> IDLE, bcasts |-> BroadcastDetection(<<>>, FALSE)]
         ELSE [state |-> state, bcasts |-> <<>>]
    ELSE [state |-> state, bcasts |-> <<>>]

\* mutant: detected=false is broadcast on every call without local detection
ClearOnNoDetection_Rebroadcasts(state, t, astart, duration) ==
    IF state = ALERT
    THEN IF AlertExpired(t, astart, duration)
         THEN [state |-> IDLE, bcasts |-> BroadcastDetection(<<>>, FALSE)]
         ELSE [state |-> state, bcasts |-> BroadcastDetection(<<>>, FALSE)]
    ELSE IF state = PENDING
    THEN [state |-> IDLE, bcasts |-> BroadcastDetection(<<>>, FALSE)]
    ELSE [state |-> state, bcasts |-> BroadcastDetection(<<>>, FALSE)]

\* updateAlertState, lines 155-169: the state after the branch taken without
\* local detection, and the broadcasts
ClearOnNoDetection(state, t, astart, duration) ==
    IF state = ALERT
    THEN IF AlertExpired(t, astart, duration)
         THEN [state |-> IDLE, bcasts |-> BroadcastDetection(<<>>, FALSE)]
         ELSE [state |-> state, bcasts |-> <<>>]
    ELSE IF state = PENDING
    THEN [state |-> IDLE, bcasts |-> BroadcastDetection(<<>>, FALSE)]
    ELSE [state |-> state, bcasts |-> <<>>]

\* evaluateConsensus, lines 184-194: the state it leaves
ConsensusOutcome(detecting, total) ==
    IF ConsensusReached(detecting, total) THEN ALERT ELSE IDLE

\* tick records one call of updateAlertState: the state it started in (NONE
\* before the first call), whether the timer of that state (the consensus
\* window in PENDING, the alert dwell in ALERT) had run out when it started,
\* the frames it broadcast, whether it called evaluateConsensus, and the
\* figure triggerAlert logged (-1: triggerAlert was not called).
NoTick ==
    [pre |-> "NONE", due |-> FALSE, bcasts |-> <<>>, evaluated |-> FALSE,
     reported |-> -1]

\* rx outside the body of receiveLoop's loop: buffer and msg are locals of
\* the body
NoRx == [frame |-> <<>>, msg |-> <<>>, callbacks |-> <<>>]

(* ------------------------------- Init --------------------------------- *)

\* no peer table is followed, no Detection message has been broadcast and
\* updateAlertState has not been called twice
NoPair == [peer_nodes |-> EmptyTable, sent |-> <<>>, prev |-> NoTick]

\* no MQ2Sensor has been constructed
NoSensor ==
    [pc |-> "none", i2c_fd_ |-> -1, ro_ |-> 0, is_initialized_ |-> FALSE,
     i |-> 0, rs_sum |-> 0, result |-> "none", adc |-> <<0, 0>>,
     adc_ok |-> TRUE, reads |-> 0, opened |-> FALSE, addressed |-> FALSE,
     clean_air |-> TRUE]

\* The configurations the model runs: both a zero and a positive consensus
\* window; the other periods are one second, and a peer is stale once it has
\* been silent for more than zero seconds.
Configs ==
    [consensus_timeout_sec : {0, 1}, alert_duration_sec : {1},
     heartbeat_interval_sec : {1}, node_timeout_sec : {0}]

\* The state after SentinelCore's and LoraMesh's constructors
Init ==
    /\ now = 0
    /\ in_range = Peers
    /\ config_ \in Configs
    /\ g_running = TRUE
    /\ pc = "init"
    /\ detection_data_ = FALSE
    /\ alert_state_ = IDLE
    /\ consensus_start_time_ = 0
    /\ alert_start_time_ = 0
    /\ total_nodes = 0
    /\ detecting_nodes = 0
    /\ is_initialized_ = FALSE
    /\ detection_callback_ = FALSE
    /\ active_nodes_ = EmptyTable
    /\ rx_pc = "off"
    /\ hb_pc = "off"
    /\ hb_wake = 0
    /\ tick = NoTick
    /\ send_mutex_ = "free"
    /\ link = <<>>
    /\ rx = NoRx
    /\ pruned = {}
    /\ codec = NoCodec
    /\ nodes_mutex_ = "free"
    /\ callback_reenters = FALSE
    /\ pair = NoPair
    /\ sensor = NoSensor

(* ----------------------- LoraMesh::initialize ------------------------- *)

\* initializeSPI and configureLoRa return true; receive_thread_ is started
Initialize_StartReceive ==
    /\ pc = "init"
    /\ rx_pc' = "loop"
    /\ pc' = "init_hb"
    /\ UNCHANGED <<auxVars, fineVars, now, in_range, config_, g_running,
                   detection_data_, coreVars, evalVars, is_initialized_,
                   detection_callback_, active_nodes_, hb_pc, hb_wake, tick>>

\* heartbeat_thread_ is started
Initialize_StartHeartbeat ==
    /\ pc = "init_hb"
    /\ hb_pc' = "loop"
    /\ pc' = "init_flag"
    /\ UNCHANGED <<auxVars, fineVars, now, in_range, config_, g_running,
                   detection_data_, coreVars, evalVars, is_initialized_,
                   detection_callback_, active_nodes_, rx_pc, hb_wake, tick>>

\* is_initialized_ = true; return true
Initialize_Return ==
    /\ pc = "init_flag"
    /\ is_initialized_' = TRUE
    /\ pc' = "set_cb"
    /\ UNCHANGED <<auxVars, fineVars, now, in_range, config_, g_running,
                   detection_data_, coreVars, evalVars, detection_callback_,
                   active_nodes_, meshThreadVars, tick>>

\* SentinelCore::initialize: mesh_->setDetectionCallback(...); return true
SetDetectionCallback ==
    /\ pc = "set_cb"
    /\ detection_callback_' = TRUE
    /\ pc' = "run"
    /\ UNCHANGED <<auxVars, fineVars, now, in_range, config_, g_running,
                   detection_data_, coreVars, evalVars, is_initialized_,
                   active_nodes_, meshThreadVars, tick>>

(* ------------------------- SentinelCore::run -------------------------- *)

\* One iteration of the loop of run() up to the first point where
\* updateAlertState depends on another thread: checkSensor and checkVision
\* (when their periods have run out) store what the detectors report, and
\* updateAlertState runs lines 135-146 or 135-169.
RunLoop ==
    /\ pc = "run"
    /\ g_running
    /\ \E data \in BOOLEAN :
         LET start == [NoTick EXCEPT
                         !.pre = alert_state_,
                         !.due =
                            \/ /\ alert_state_ = PENDING
                               /\ now - consensus_start_time_
                                      >= config_.consensus_timeout_sec
                            \/ /\ alert_state_ = ALERT
                               /\ now - alert_start_time_
                                      >= config_.alert_duration_sec]
         IN  /\ detection_data_' = data
             /\ IF LocalDetection(data)
                THEN LET r == EnterPending(alert_state_,
                                           consensus_start_time_, now)
                     IN  /\ alert_state_' = r.state
                         /\ consensus_start_time_' = r.start
                         /\ tick' = [start EXCEPT !.bcasts = r.bcasts]
                         /\ pc' = "chk"
                ELSE LET r == ClearOnNoDetection(alert_state_, now,
                                  alert_start_time_, config_.alert_duration_sec)
                     IN  /\ alert_state_' = r.state
                         /\ consensus_start_time_' = consensus_start_time_
                         /\ tick' = [start EXCEPT !.bcasts = r.bcasts]
                         /\ pc' = "run"
    /\ UNCHANGED <<auxVars, fineVars, now, in_range, config_, g_running,
                   alert_start_time_, evalVars, is_initialized_,
                   detection_callback_, active_nodes_, meshThreadVars>>

\* updateAlertState, lines 149-154, and the first statement of
\* evaluateConsensus (line 173), which takes nodes_mutex_
CheckConsensusWindow ==
    /\ pc = "chk"
    /\ IF /\ alert_state_ = PENDING
          /\ ConsensusWindowExpired(now, consensus_start_time_,
                                    config_.consensus_timeout_sec)
       THEN /\ total_nodes' = TotalNodes(GetActiveNodeCount(active_nodes_))
            /\ tick' = [tick EXCEPT !.evaluated = TRUE]
            /\ pc' = "eval"
       ELSE /\ pc' = "run"
            /\ UNCHANGED <<total_nodes, tick>>
    /\ UNCHANGED <<auxVars, fineVars, now, in_range, config_, g_running,
                   detection_data_, coreVars, detecting_nodes,
                   is_initialized_, detection_callback_, active_nodes_,
                   meshThreadVars>>

\* mutant: triggerAlert is called whatever the outcome of the evaluation
EvaluateConsensus_AlwaysTriggers ==
    /\ pc = "eval"
    /\ LET d == DetectingNodes(GetDetectingNodeCount(active_nodes_),
                               detection_data_)
       IN  /\ alert_state_' = ConsensusOutcome(d, total_nodes)
           /\ alert_start_time_' =
                  IF ConsensusOutcome(d, total_nodes) = ALERT
                  THEN now ELSE alert_start_time_
           /\ detecting_nodes' = d
           /\ total_nodes' = total_nodes
           /\ pc' = "trigger"
    /\ UNCHANGED <<auxVars, fineVars, now, in_range, config_, g_running,
                   detection_data_, consensus_start_time_, is_initialized_,
                   detection_callback_, active_nodes_, meshThreadVars, tick>>

\* evaluateConsensus, lines 174-194: the second count, taken under a second
\* acquisition of nodes_mutex_, and the decision
EvaluateConsensus ==
    /\ pc = "eval"
    /\ LET d == DetectingNodes(GetDetectingNodeCount(active_nodes_),
                               detection_data_)
       IN  /\ alert_state_' = ConsensusOutcome(d, total_nodes)
           /\ IF ConsensusOutcome(d, total_nodes) = ALERT
              THEN /\ alert_start_time_' = now
                   /\ detecting_nodes' = d
                   /\ total_nodes' = total_nodes
                   /\ pc' = "trigger"
              ELSE /\ alert_start_time_' = alert_start_time_
                   /\ detecting_nodes' = 0
                   /\ total_nodes' = 0
                   /\ pc' = "run"
    /\ UNCHANGED <<auxVars, fineVars, now, in_range, config_, g_running,
                   detection_data_, consensus_start_time_, is_initialized_,
                   detection_callback_, active_nodes_, meshThreadVars, tick>>

\* triggerAlert: logs the detection data and the detecting count, read again
\* under a third acquisition of nodes_mutex_; evaluateConsensus returns
TriggerAlert ==
    /\ pc = "trigger"
    /\ tick' = [tick EXCEPT
                  !.reported = ReportedDetectingNodes(
                                   GetDetectingNodeCount(active_nodes_))]
    /\ total_nodes' = 0
    /\ detecting_nodes' = 0
    /\ pc' = "run"
    /\ UNCHANGED <<auxVars, fineVars, now, in_range, config_, g_running,
                   detection_data_, coreVars, is_initialized_,
                   detection_callback_, active_nodes_, meshThreadVars>>

\* signalHandler clears g_running (SIGINT / SIGTERM); the loop of run() sees
\* it at its next test, main returns and ~SentinelCore calls shutdown()
ExitRun ==
    /\ pc = "run"
    /\ g_running' = FALSE
    /\ pc' = "shutdown"
    /\ UNCHANGED <<auxVars, fineVars, now, in_range, config_, detection_data_,
                   coreVars, evalVars, is_initialized_, detection_callback_,
                   active_nodes_, meshThreadVars, tick>>

(* ------------------------- LoraMesh::shutdown ------------------------- *)

\* is_initialized_ = false
Shutdown_ClearFlag ==
    /\ pc = "shutdown"
    /\ is_initialized_' = FALSE
    /\ pc' = "join_rx"
    /\ UNCHANGED <<auxVars, fineVars, now, in_range, config_, g_running,
                   detection_data_, coreVars, evalVars, detection_callback_,
                   active_nodes_, meshThreadVars, tick>>

\* receive_thread_.join() returns once receiveLoop has returned
Shutdown_JoinReceive ==
    /\ pc = "join_rx"
    /\ rx_pc = "done"
    /\ rx_pc' = "joined"
    /\ pc' = "join_hb"
    /\ UNCHANGED <<auxVars, fineVars, now, in_range, config_, g_running,
                   detection_data_, coreVars, evalVars, is_initialized_,
                   detection_callback_, active_nodes_, hb_pc, hb_wake, tick>>

\* mutant: shutdown() does not wait for heartbeatLoop to return
Shutdown_JoinHeartbeat_NoWait ==
    /\ pc = "join_hb"
    /\ pc' = "stopped"
    /\ UNCHANGED <<auxVars, fineVars, now, in_range, config_, g_running,
                   detection_data_, coreVars, evalVars, is_initialized_,
                   detection_callback_, active_nodes_, meshThreadVars, tick>>

\* heartbeat_thread_.join() returns once heartbeatLoop has returned
Shutdown_JoinHeartbeat ==
    /\ pc = "join_hb"
    /\ hb_pc = "done"
    /\ hb_pc' = "joined"
    /\ pc' = "stopped"
    /\ UNCHANGED <<auxVars, fineVars, now, in_range, config_, g_running,
                   detection_data_, coreVars, evalVars, is_initialized_,
                   detection_callback_, active_nodes_, rx_pc, hb_wake, tick>>

(* ----------------------- LoraMesh::receiveLoop ------------------------ *)

\* mutant: the callback is never invoked
Callbacks_None(msg, callback_set) == <<>>

\* mutant: the callback is invoked for a message of any type
Callbacks_OnEveryType(msg, callback_set) ==
    IF msg.source_id # NodeId /\ callback_set
    THEN <<[node_id |-> msg.source_id, detected |-> (msg.p0 = 1)]>>
    ELSE <<>>

\* processMessage, lines 183-186: the calls of detection_callback_ made for
\* one message, each with its arguments
Callbacks(msg, callback_set) ==
    IF msg.source_id # NodeId /\ msg.type = MSG_TYPE_DETECTION /\ callback_set
    THEN <<[node_id |-> msg.source_id, detected |-> (msg.p0 = 1)]>>
    ELSE <<>>

\* mutant: a reported detection moves an idle core to pending
HandleMeshDetection_Escalates(core, calls) ==
    IF calls # <<>> /\ calls[1].detected /\ core[1] = IDLE
    THEN <<PENDING, core[2], core[3]>>
    ELSE core

\* SentinelCore::handleMeshDetection, run once for each call of the
\* registered callback: the values of alert_state_, consensus_start_time_
\* and alert_start_time_ it leaves (it only writes a debug log line)
HandleMeshDetection(core, calls) == core

\* mutant: the loop does not test the flag and goes on polling
ReceiveLoop_Exit_Spins ==
    /\ rx_pc = "loop"
    /\ ~is_initialized_
    /\ rx_pc' = "sleep"
    /\ UNCHANGED <<auxVars, fineVars, now, in_range, config_, g_running, pc,
                   detection_data_, coreVars, evalVars, is_initialized_,
                   detection_callback_, active_nodes_, hb_pc, hb_wake, tick>>

\* The loop test fails and receiveLoop returns
ReceiveLoop_Exit ==
    /\ rx_pc = "loop"
    /\ ~is_initialized_
    /\ rx_pc' = "done"
    /\ UNCHANGED <<auxVars, fineVars, now, in_range, config_, g_running, pc,
                   detection_data_, coreVars, evalVars, is_initialized_,
                   detection_callback_, active_nodes_, hb_pc, hb_wake, tick>>

\* One pass of the loop in which receiveData delivers a frame:
\* deserializeMessage, then processMessage under nodes_mutex_.  (A pass in
\* which receiveData returns 0 changes nothing.)
ReceiveLoop_Frame ==
    /\ rx_pc = "loop"
    /\ is_initialized_
    /\ \E frame \in Frames :
         /\ Len(frame) >= 5 => frame[2] \in in_range \cup {NodeId}
         /\ \E msg \in DeserializeMessage(frame) :
               /\ active_nodes_' = ProcessMessage(active_nodes_, msg, now)
               /\ LET core == HandleMeshDetection(
                                  coreVars, Callbacks(msg, detection_callback_))
                  IN  /\ alert_state_' = core[1]
                      /\ consensus_start_time_' = core[2]
                      /\ alert_start_time_' = core[3]
    /\ UNCHANGED <<auxVars, fineVars, now, in_range, config_, g_running, pc,
                   detection_data_, evalVars, is_initialized_,
                   detection_callback_, meshThreadVars, tick>>

(* ---------------------- LoraMesh::heartbeatLoop ----------------------- *)

\* The loop test fails and heartbeatLoop returns.  The test is made when the
\* thread starts and each time sleep_for returns.
HeartbeatLoop_Exit ==
    /\ hb_pc = "loop"
    /\ now >= hb_wake
    /\ ~is_initialized_
    /\ hb_pc' = "done"
    /\ hb_wake' = 0
    /\ UNCHANGED <<auxVars, fineVars, now, in_range, config_, g_running, pc,
                   detection_data_, coreVars, evalVars, is_initialized_,
                   detection_callback_, active_nodes_, rx_pc, tick>>

\* One pass of the loop: the heartbeat is sent (sendMessage only serialises
\* it, under send_mutex_), cleanupStaleNodes runs under nodes_mutex_, and
\* sleep_for(heartbeat_interval_sec) keeps the thread from its next loop test
\* until hb_wake
HeartbeatLoop_Pass ==
    /\ hb_pc = "loop"
    /\ now >= hb_wake
    /\ is_initialized_
    /\ active_nodes_' = CleanupStaleNodes(active_nodes_, now,
                                          config_.node_timeout_sec)
    /\ hb_wake' = now + config_.heartbeat_interval_sec
    /\ UNCHANGED <<auxVars, fineVars, now, in_range, config_, g_running, pc,
                   detection_data_, coreVars, evalVars, is_initialized_,
                   detection_callback_, rx_pc, hb_pc, tick>>

(* ------------------------------ the clock ----------------------------- *)

AdvanceClock ==
    /\ now < MaxTime
    /\ now' = now + 1
    /\ UNCHANGED <<auxVars, fineVars, in_range, config_, g_running, pc,
                   detection_data_, coreVars, evalVars, is_initialized_,
                   detection_callback_, active_nodes_, meshThreadVars, tick>>

Next ==
    \/ Initialize_StartReceive
    \/ Initialize_StartHeartbeat
    \/ Initialize_Return
    \/ SetDetectionCallback
    \/ RunLoop
    \/ CheckConsensusWindow
    \/ EvaluateConsensus
    \/ TriggerAlert
    \/ ExitRun
    \/ Shutdown_ClearFlag
    \/ Shutdown_JoinReceive
    \/ Shutdown_JoinHeartbeat
    \/ ReceiveLoop_Exit
    \/ ReceiveLoop_Frame
    \/ HeartbeatLoop_Exit
    \/ HeartbeatLoop_Pass
    \/ AdvanceClock

Spec == Init /\ [][Next]_vars

\* The quorum scenario: the same node with one more peer within range
InitQuorum ==
    /\ now = 0
    /\ in_range = Peers \cup {FarPeer}
    /\ config_ \in Configs
    /\ g_running = TRUE
    /\ pc = "init"
    /\ detection_data_ = FALSE
    /\ alert_state_ = IDLE
    /\ consensus_start_time_ = 0
    /\ alert_start_time_ = 0
    /\ total_nodes = 0
    /\ detecting_nodes = 0
    /\ is_initialized_ = FALSE
    /\ detection_callback_ = FALSE
    /\ active_nodes_ = EmptyTable
    /\ rx_pc = "off"
    /\ hb_pc = "off"
    /\ hb_wake = 0
    /\ tick = NoTick
    /\ send_mutex_ = "free"
    /\ link = <<>>
    /\ rx = NoRx
    /\ pruned = {}
    /\ codec = NoCodec
    /\ nodes_mutex_ = "free"
    /\ callback_reenters = FALSE
    /\ pair = NoPair
    /\ sensor = NoSensor

SpecQuorum == InitQuorum /\ [][Next]_vars

(* ==================== LoraMesh, one lock at a time ==================== *)

\* mutant: sendMessage takes no lock
MutexFree_NoLock(mutex) == TRUE

\* std::lock_guard on a std::mutex returns once no thread holds it
MutexFree(mutex) == mutex = "free"

\* receiveLoop, lines 112-124: the loop test passes, receiveData delivers a
\* frame, deserializeMessage decodes it and processMessage handles what was
\* decoded, under nodes_mutex_
ReceiveLoop_Process ==
    /\ rx_pc = "loop"
    /\ is_initialized_
    /\ \E frame \in Frames :
         /\ Len(frame) >= 5 => frame[2] \in in_range \cup {NodeId}
         /\ \E msg \in DeserializeMessage(frame) :
               /\ active_nodes_' = ProcessMessage(active_nodes_, msg, now)
               /\ rx' = [frame |-> frame, msg |-> msg,
                         callbacks |-> Callbacks(msg, detection_callback_)]
               /\ LET core == HandleMeshDetection(
                                  coreVars, Callbacks(msg, detection_callback_))
                  IN  /\ alert_state_' = core[1]
                      /\ consensus_start_time_' = core[2]
                      /\ alert_start_time_' = core[3]
    /\ rx_pc' = "sleep"
    /\ UNCHANGED <<auxVars, now, in_range, config_, g_running, pc,
                   detection_data_, evalVars, is_initialized_,
                   detection_callback_, hb_pc, hb_wake, tick, send_mutex_,
                   link, pruned>>

\* receiveLoop, line 126: sleep_for(10 ms), and the body's locals are gone
ReceiveLoop_Sleep ==
    /\ rx_pc = "sleep"
    /\ rx_pc' = "loop"
    /\ rx' = NoRx
    /\ UNCHANGED <<auxVars, now, in_range, config_, g_running, pc,
                   detection_data_, coreVars, evalVars, is_initialized_,
                   detection_callback_, active_nodes_, hb_pc, hb_wake, tick,
                   send_mutex_, link, pruned>>

\* heartbeatLoop, lines 135-142: the loop test passes and the heartbeat
\* message is built
HeartbeatLoop_Test ==
    /\ hb_pc = "loop"
    /\ now >= hb_wake
    /\ is_initialized_
    /\ hb_pc' = "lock"
    /\ UNCHANGED <<auxVars, now, in_range, config_, g_running, pc,
                   detection_data_, coreVars, evalVars, is_initialized_,
                   detection_callback_, active_nodes_, rx_pc, hb_wake, tick,
                   fineVars>>

\* heartbeatLoop, line 144: sendMessage takes send_mutex_ (line 92)
HeartbeatLoop_SendLock ==
    /\ hb_pc = "lock"
    /\ MutexFree(send_mutex_)
    /\ send_mutex_' = "heartbeat"
    /\ hb_pc' = "send"
    /\ UNCHANGED <<auxVars, now, in_range, config_, g_running, pc,
                   detection_data_, coreVars, evalVars, is_initialized_,
                   detection_callback_, active_nodes_, rx_pc, hb_wake, tick,
                   link, rx, pruned>>

\* sendMessage, lines 95-107: the heartbeat is serialised and the lock_guard
\* releases send_mutex_
HeartbeatLoop_SendUnlock ==
    /\ hb_pc = "send"
    /\ link' = HeartbeatFrame
    /\ send_mutex_' = "free"
    /\ hb_pc' = "prune"
    /\ UNCHANGED <<auxVars, now, in_range, config_, g_running, pc,
                   detection_data_, coreVars, evalVars, is_initialized_,
                   detection_callback_, active_nodes_, rx_pc, hb_wake, tick,
                   rx, pruned>>

\* heartbeatLoop, lines 147-150: cleanupStaleNodes under nodes_mutex_, then
\* sleep_for(heartbeat_interval_sec)
HeartbeatLoop_Prune ==
    /\ hb_pc = "prune"
    /\ active_nodes_' = CleanupStaleNodes(active_nodes_, now,
                                          config_.node_timeout_sec)
    /\ pruned' = {n \in DOMAIN active_nodes_ :
                      IsStale(now, active_nodes_[n].last_seen,
                              config_.node_timeout_sec)}
    /\ hb_wake' = now + config_.heartbeat_interval_sec
    /\ hb_pc' = "loop"
    /\ UNCHANGED <<auxVars, now, in_range, config_, g_running, pc,
                   detection_data_, coreVars, evalVars, is_initialized_,
                   detection_callback_, rx_pc, tick, send_mutex_, link, rx>>

\* The main thread, in the loop of run(), reaches one of the calls of
\* broadcastDetection in updateAlertState (line 145 with local detection,
\* lines 161 and 167 without): the argument is the local detection in each,
\* and sendMessage takes send_mutex_.  Which of the calls it is, and the
\* alert state that decides it, are left open here.
Driver_BroadcastLock ==
    /\ pc = "run"
    /\ g_running
    /\ MutexFree(send_mutex_)
    /\ \E data \in BOOLEAN : detection_data_' = data
    /\ send_mutex_' = "main"
    /\ pc' = "send"
    /\ UNCHANGED <<auxVars, now, in_range, config_, g_running, coreVars,
                   evalVars, is_initialized_, detection_callback_,
                   active_nodes_, meshThreadVars, tick, link, rx, pruned>>

\* sendMessage, lines 95-107: the detection is serialised and the lock_guard
\* releases send_mutex_; broadcastDetection returns
Driver_BroadcastUnlock ==
    /\ pc = "send"
    /\ link' = DetectionFrame(LocalDetection(detection_data_))
    /\ send_mutex_' = "free"
    /\ pc' = "run"
    /\ UNCHANGED <<auxVars, now, in_range, config_, g_running, detection_data_,
                   coreVars, evalVars, is_initialized_, detection_callback_,
                   active_nodes_, meshThreadVars, tick, rx, pruned>>

\* LoraMesh does not read the consensus window: one value of it is enough
InitMesh == Init /\ config_.consensus_timeout_sec = 1

\* LoraMesh with the receive path taken step by step
NextReceive ==
    \/ Initialize_StartReceive
    \/ Initialize_StartHeartbeat
    \/ Initialize_Return
    \/ SetDetectionCallback
    \/ ExitRun
    \/ Shutdown_ClearFlag
    \/ Shutdown_JoinReceive
    \/ Shutdown_JoinHeartbeat
    \/ ReceiveLoop_Exit
    \/ ReceiveLoop_Process
    \/ ReceiveLoop_Sleep
    \/ HeartbeatLoop_Exit
    \/ HeartbeatLoop_Test
    \/ HeartbeatLoop_SendLock
    \/ HeartbeatLoop_SendUnlock
    \/ HeartbeatLoop_Prune
    \/ AdvanceClock

SpecReceive == InitMesh /\ [][NextReceive]_vars

\* LoraMesh with the send path and the heartbeat cycle taken step by step
NextSend ==
    \/ Initialize_StartReceive
    \/ Initialize_StartHeartbeat
    \/ Initialize_Return
    \/ SetDetectionCallback
    \/ Driver_BroadcastLock
    \/ Driver_BroadcastUnlock
    \/ ExitRun
    \/ Shutdown_ClearFlag
    \/ Shutdown_JoinReceive
    \/ Shutdown_JoinHeartbeat
    \/ ReceiveLoop_Exit
    \/ ReceiveLoop_Frame
    \/ HeartbeatLoop_Exit
    \/ HeartbeatLoop_Test
    \/ HeartbeatLoop_SendLock
    \/ HeartbeatLoop_SendUnlock
    \/ HeartbeatLoop_Prune
    \/ AdvanceClock

SpecSend == InitMesh /\ [][NextSend]_vars

(* ------------------------ the codec on its own ------------------------ *)

\* payload bytes of the messages handed to serializeMessage
PayloadBytes == {0, 1}

\* the payloads: every sequence of at most MaxPayload bytes, and one of the
\* full MAX_PAYLOAD_SIZE bytes
Payloads ==
    UNION {[1..n -> PayloadBytes] : n \in 0..MaxPayload}
        \cup {[i \in 1..MAX_PAYLOAD_SIZE |-> i % 2]}

\* the MeshMessage values handed to serializeMessage (payload_len is at most
\* MAX_PAYLOAD_SIZE, as in broadcastDetection and heartbeatLoop)
CodecMessages ==
    {Message(t, s, BROADCAST, p, IF Len(p) = 0 THEN 0 ELSE p[1]) :
         t \in {MSG_TYPE_HEARTBEAT, MSG_TYPE_DETECTION, MSG_TYPE_ACK},
         s \in {NodeId, NodeId + 1},
         p \in Payloads}

\* byte b with bit k inverted
FlipBit(b, k) ==
    IF (b \div (2 ^ k)) % 2 = 1 THEN b - 2 ^ k ELSE b + 2 ^ k

\* byte strings the receive buffer can hold besides whole frames: every
\* leading part of an encoded frame, and frames that declare a payload of
\* more than MAX_PAYLOAD_SIZE bytes
CodecBuffers ==
    UNION {{SubSeq(SerializeMessage(m), 1, n) : n \in 0..(m.payload_len + 4)} :
               m \in {c \in CodecMessages : c.payload_len <= MaxPayload}}
        \cup {<<MSG_TYPE_DETECTION, NodeId + 1, BROADCAST, n, 1, 0>> :
                  n \in {MAX_PAYLOAD_SIZE + 1, 255}}

\* serializeMessage is called on a message
Codec_Serialize ==
    /\ codec.stage = "idle"
    /\ \E m \in CodecMessages :
           codec' = [stage |-> "encoded", m |-> m,
                     frame |-> SerializeMessage(m), flipped |-> 0,
                     msg |-> <<>>, log |-> <<>>]
    /\ UNCHANGED <<progVars, lockVars, pair, sensor>>

\* the link inverts one bit of the encoded frame
Codec_FlipBit ==
    /\ codec.stage = "encoded"
    /\ \E i \in 1..Len(codec.frame), k \in 0..7 :
           codec' = [codec EXCEPT
                         !.stage = "flipped",
                         !.frame = [@ EXCEPT ![i] = FlipBit(@, k)],
                         !.flipped = i]
    /\ UNCHANGED <<progVars, lockVars, pair, sensor>>

\* receiveData fills the buffer with bytes that are not a whole frame
Codec_Receive ==
    /\ codec.stage = "idle"
    /\ \E frame \in CodecBuffers :
           codec' = [stage |-> "received", m |-> <<>>, frame |-> frame,
                     flipped |-> 0, msg |-> <<>>, log |-> <<>>]
    /\ UNCHANGED <<progVars, lockVars, pair, sensor>>

\* deserializeMessage is called on the bytes
Codec_Deserialize ==
    /\ codec.stage \in {"encoded", "flipped", "received"}
    /\ \E msg \in DeserializeMessage(codec.frame),
          log \in DecodeLog(codec.frame) :
           codec' = [codec EXCEPT !.stage = "decoded", !.msg = msg,
                                  !.log = log]
    /\ UNCHANGED <<progVars, lockVars, pair, sensor>>

\* the caller is done with the result
Codec_Return ==
    /\ codec.stage = "decoded"
    /\ codec' = NoCodec
    /\ UNCHANGED <<progVars, lockVars, pair, sensor>>

NextCodec ==
    \/ Codec_Serialize
    \/ Codec_FlipBit
    \/ Codec_Receive
    \/ Codec_Deserialize
    \/ Codec_Return

SpecCodec == InitMesh /\ [][NextCodec]_vars

(* --------------- failed initialisation, repeated shutdown -------------- *)

\* What initializeSPI and configureLoRa can return once they drive a radio:
\* the placeholders in the source return true
RadioOutcomes == BOOLEAN

\* mutant: initialize() starts both threads before it returns false
Initialize_Fail_ThreadsStarted ==
    /\ pc = "init"
    /\ \E spi \in RadioOutcomes, lora \in RadioOutcomes :
           ~(spi /\ lora)
    /\ rx_pc' = "loop"
    /\ hb_pc' = "loop"
    /\ pc' = "init_failed"
    /\ UNCHANGED <<auxVars, fineVars, now, in_range, config_, g_running,
                   detection_data_, coreVars, evalVars, is_initialized_,
                   detection_callback_, active_nodes_, hb_wake, tick>>

\* LoraMesh::initialize, lines 29-38: initializeSPI or configureLoRa returns
\* false, the error is logged and initialize returns false
Initialize_Fail ==
    /\ pc = "init"
    /\ \E spi \in RadioOutcomes, lora \in RadioOutcomes :
           ~(spi /\ lora)
    /\ pc' = "init_failed"
    /\ UNCHANGED <<auxVars, fineVars, now, in_range, config_, g_running,
                   detection_data_, coreVars, evalVars, is_initialized_,
                   detection_callback_, active_nodes_, meshThreadVars, tick>>

\* SentinelCore::initialize returns false (lines 57-60), main returns 1
\* without calling run (lines 272-275), and ~SentinelCore calls shutdown,
\* which clears g_running and calls mesh_->shutdown()
Main_InitializeFailed ==
    /\ pc = "init_failed"
    /\ g_running' = FALSE
    /\ pc' = "shutdown"
    /\ UNCHANGED <<auxVars, fineVars, now, in_range, config_, detection_data_,
                   coreVars, evalVars, is_initialized_, detection_callback_,
                   active_nodes_, meshThreadVars, tick>>

\* mutant: shutdown() joins receive_thread_ without asking joinable();
\* join() on a thread that is not joinable throws
Shutdown_SkipJoinReceive_Joins ==
    /\ pc = "join_rx"
    /\ rx_pc \in {"off", "joined"}
    /\ pc' = "fault"
    /\ UNCHANGED <<auxVars, fineVars, now, in_range, config_, g_running,
                   detection_data_, coreVars, evalVars, is_initialized_,
                   detection_callback_, active_nodes_, meshThreadVars, tick>>

\* shutdown, lines 311-313: receive_thread_ is not joinable (never started,
\* or joined already) and is left alone
Shutdown_SkipJoinReceive ==
    /\ pc = "join_rx"
    /\ rx_pc \in {"off", "joined"}
    /\ pc' = "join_hb"
    /\ UNCHANGED <<auxVars, fineVars, now, in_range, config_, g_running,
                   detection_data_, coreVars, evalVars, is_initialized_,
                   detection_callback_, active_nodes_, meshThreadVars, tick>>

\* shutdown, lines 315-317: heartbeat_thread_ is not joinable and is left
\* alone
Shutdown_SkipJoinHeartbeat ==
    /\ pc = "join_hb"
    /\ hb_pc \in {"off", "joined"}
    /\ pc' = "stopped"
    /\ UNCHANGED <<auxVars, fineVars, now, in_range, config_, g_running,
                   detection_data_, coreVars, evalVars, is_initialized_,
                   detection_callback_, active_nodes_, meshThreadVars, tick>>

\* shutdown() is called on the mesh once more: by ~LoraMesh (line 21) when
\* ~SentinelCore releases mesh_ after SentinelCore::shutdown has returned
Shutdown_Again ==
    /\ pc = "stopped"
    /\ pc' = "shutdown"
    /\ UNCHANGED <<auxVars, fineVars, now, in_range, config_, g_running,
                   detection_data_, coreVars, evalVars, is_initialized_,
                   detection_callback_, active_nodes_, meshThreadVars, tick>>

NextLifecycle ==
    \/ Next
    \/ Initialize_Fail
    \/ Main_InitializeFailed
    \/ Shutdown_SkipJoinReceive
    \/ Shutdown_SkipJoinHeartbeat
    \/ Shutdown_Again

SpecLifecycle == InitMesh /\ [][NextLifecycle]_vars

(* ------------------------ shutdown under fairness ---------------------- *)

\* heartbeatLoop, line 150: shutdown() is waiting in a join while the
\* heartbeat thread is in sleep_for, and time passes until the sleep is over
AdvanceClock_ToWake ==
    /\ pc \in {"join_rx", "join_hb"}
    /\ hb_pc = "loop"
    /\ now < hb_wake
    /\ now' = hb_wake
    /\ UNCHANGED <<auxVars, fineVars, in_range, config_, g_running, pc,
                   detection_data_, coreVars, evalVars, is_initialized_,
                   detection_callback_, active_nodes_, meshThreadVars, tick>>

NextShutdown ==
    \/ NextReceive
    \/ AdvanceClock_ToWake

\* Every thread that can take a step is scheduled in the end, and a sleep
\* ends: the main thread inside shutdown(), the receive thread at its sleep
\* and its loop test, the heartbeat thread from its loop test through
\* sendMessage and cleanupStaleNodes.
SpecShutdown ==
    /\ InitMesh
    /\ [][NextShutdown]_vars
    /\ WF_vars(Shutdown_ClearFlag)
    /\ WF_vars(Shutdown_JoinReceive)
    /\ WF_vars(Shutdown_JoinHeartbeat)
    /\ WF_vars(ReceiveLoop_Sleep)
    /\ WF_vars(ReceiveLoop_Exit)
    /\ WF_vars(HeartbeatLoop_SendLock)
    /\ WF_vars(HeartbeatLoop_SendUnlock)
    /\ WF_vars(HeartbeatLoop_Prune)
    /\ WF_vars(HeartbeatLoop_Exit)
    /\ WF_vars(AdvanceClock_ToWake)

(* ======================= the alert state machine ====================== *)

\* updateAlertState has returned at least once and is not running
TickDone == pc \notin {"chk", "eval", "trigger"} /\ tick.pre # "NONE"

\* the bytes of the Detection frames this node broadcasts
TrueFrame == <<2, 1, 255, 1, 1, 252>>

FalseFrame == <<2, 1, 255, 1, 0, 253>>

\* the peers the node table records as detecting
DetectingPeers == {n \in DOMAIN active_nodes_ : active_nodes_[n].detecting}

C2_NoTickFromIdleToAlert == tick.pre = IDLE => alert_state_ # ALERT

\* C2 amended: every entry into Alert is made from Pending, by
\* evaluateConsensus, when at least consensus_timeout_sec has passed since
\* consensus_start_time_, which was recorded on entering Pending (one tick
\* may carry both the entry into Pending and the entry into Alert).
C2_AlertOnlyFromPendingAfterWindow ==
    /\ [](alert_state_ = PENDING => consensus_start_time_ <= now)
    /\ [][(alert_state_ # ALERT /\ alert_state_' = ALERT)
             => /\ alert_state_ = PENDING
                /\ pc = "eval"
                /\ now - consensus_start_time_
                       >= config_.consensus_timeout_sec]_vars
    /\ [][(alert_state_ = PENDING /\ alert_state_' = PENDING)
             => consensus_start_time_' = consensus_start_time_]_vars

C2_Witness ==
    /\ alert_state_ = ALERT /\ tick.pre = PENDING
    /\ config_.consensus_timeout_sec > 0

\* C3 as stated: a tick that starts in Idle with local detection ends in
\* Pending with exactly one broadcast, of detected=true; one that starts in
\* Idle without local detection does not end in Pending.
C3_IdleTickEndsInPending ==
    /\ (TickDone /\ tick.pre = IDLE /\ detection_data_)
           => (alert_state_ = PENDING /\ tick.bcasts = <<TrueFrame>>)
    /\ (TickDone /\ tick.pre = IDLE /\ ~detection_data_)
           => alert_state_ # PENDING

\* C3 amended: a tick that starts in Idle with local detection enters
\* Pending, records consensus_start_time_ = now and broadcasts exactly one
\* frame, detected=true; it ends in Pending unless the consensus window has
\* run out within the same tick, in which case it evaluates the consensus and
\* ends in Alert or Idle.  A tick that starts in Idle without local detection
\* stays in Idle and broadcasts nothing.
C3_IdleTickEntersPending ==
    /\ []((tick.pre = IDLE /\ detection_data_)
             => /\ tick.bcasts = <<TrueFrame>>
                /\ pc = "chk" => alert_state_ = PENDING
                /\ (TickDone /\ ~tick.evaluated) => alert_state_ = PENDING
                /\ (TickDone /\ tick.evaluated)
                       => alert_state_ \in {ALERT, IDLE})
    /\ []((TickDone /\ tick.pre = IDLE /\ ~detection_data_)
             => (alert_state_ = IDLE /\ tick.bcasts = <<>>))
    /\ [][(pc = "run" /\ pc' = "chk" /\ alert_state_ = IDLE)
             => /\ alert_state_' = PENDING
                /\ consensus_start_time_' = now]_vars

C3_Witness ==
    /\ TickDone /\ tick.pre = IDLE /\ detection_data_
    /\ alert_state_ = PENDING /\ consensus_start_time_ = now
    /\ tick.bcasts = <<TrueFrame>>

C5_OnlyFailedConsensusIsSilent ==
    /\ [][(pc = "eval" /\ alert_state_' = IDLE)
             => (alert_state_ = PENDING /\ tick' = tick)]_vars
    /\ [][(pc # "eval" /\ alert_state_ # IDLE /\ alert_state_' = IDLE)
             => (pc = "run" /\ tick'.bcasts = <<FalseFrame>>)]_vars

C5_Witness ==
    /\ TickDone /\ tick.pre = PENDING /\ tick.evaluated
    /\ alert_state_ = IDLE /\ tick.bcasts = <<>>

\* C6: a tick without local detection that starts in Pending before the
\* consensus window has run out ends in Idle, has broadcast exactly
\* detected=false, has not evaluated the consensus and has not called
\* triggerAlert.
C6_PendingClearedEarly ==
    (TickDone /\ tick.pre = PENDING /\ ~tick.due /\ ~detection_data_)
        => /\ alert_state_ = IDLE
           /\ tick.bcasts = <<FalseFrame>>
           /\ ~tick.evaluated
           /\ tick.reported = -1

C6_Witness ==
    /\ TickDone /\ tick.pre = PENDING /\ ~tick.due /\ ~detection_data_
    /\ alert_state_ = IDLE /\ tick.bcasts = <<FalseFrame>>

\* C7: an evaluation takes its total as the active peers plus one, its
\* detecting figure as the detecting peers plus one exactly when the node is
\* detecting locally, and reaches consensus exactly when
\* detecting figure / total >= 6/10.
C7_ConsensusRatio ==
    /\ [][(pc = "chk" /\ pc' = "eval")
             => total_nodes' = Cardinality(DOMAIN active_nodes_) + 1]_vars
    /\ [][(pc = "eval" /\ pc' # "eval")
             => LET num == Cardinality(DetectingPeers)
                               + (IF detection_data_ THEN 1 ELSE 0)
                IN  /\ (alert_state_' = ALERT)
                           <=> (num * ThresholdDen
                                    >= ThresholdNum * total_nodes)
                    /\ pc' = "trigger"
                           => (detecting_nodes' = num
                               /\ total_nodes' = total_nodes)]_vars

C7_Witness ==
    /\ pc = "trigger" /\ total_nodes = NumPeers + 1
    /\ detecting_nodes = NumPeers

C9_CountsReadAtOneInstant ==
    [][pc = "eval" => active_nodes_' = active_nodes_]_vars

\* C10 as stated: from the return of initialize() until shutdown() is
\* called, the receive loop and the heartbeat loop are both running.
C10_LoopsRunUntilShutdown ==
    pc \in {"set_cb", "run", "chk", "eval", "trigger", "shutdown"}
        => (rx_pc = "loop" /\ hb_pc = "loop")

(* ========================= the receive path =========================== *)

\* a step in which receiveLoop decodes and processes one frame; rx' holds
\* the frame, the decoded message and the callbacks made
ReceiveStep == rx_pc = "loop" /\ rx_pc' = "sleep"

\* the step leaves every record other than s's as it was, and s has a record
\* with last_seen = now and detecting = d
RecordUpserted(s, d) ==
    /\ DOMAIN active_nodes_' = DOMAIN active_nodes_ \cup {s}
    /\ active_nodes_'[s] = [detecting |-> d, last_seen |-> now]
    /\ \A n \in DOMAIN active_nodes_ \ {s} :
           active_nodes_'[n] = active_nodes_[n]

\* the detecting flag s's record holds before the step (false: no record)
WasDetecting(s) == s \in DOMAIN active_nodes_ /\ active_nodes_[s].detecting

\* C11: the local node id is never a key of the node table, and a receive
\* step whose message carries the local node id as its source leaves the
\* node table unchanged and makes no callback.
C11_SelfSuppression ==
    /\ [](NodeId \notin DOMAIN active_nodes_)
    /\ [][(ReceiveStep /\ rx'.msg.source_id = NodeId)
             => (active_nodes_' = active_nodes_ /\ rx'.callbacks = <<>>)]_vars

C11_Witness ==
    /\ rx_pc = "sleep" /\ Len(rx.frame) >= 5
    /\ rx.msg.source_id = NodeId /\ rx.msg.type = MSG_TYPE_DETECTION
    /\ detection_callback_ /\ rx.callbacks = <<>>
    /\ active_nodes_ # EmptyTable

\* C12 as stated: a receive step whose frame is shorter than 5 bytes or
\* declares a payload longer than MAX_PAYLOAD_SIZE leaves the node table
\* unchanged and makes no callback.
C12_RejectedFrameIsDropped ==
    [][(ReceiveStep /\ (\/ Len(rx'.frame) < 5
                        \/ rx'.frame[4] > MAX_PAYLOAD_SIZE))
          => (active_nodes_' = active_nodes_ /\ rx'.callbacks = <<>>)]_vars

\* C13: a receive step whose message is a heartbeat from a peer sets the
\* peer's last_seen to now and leaves its detecting flag as it was, false if
\* the peer had no record; every other record is unchanged.
C13_HeartbeatRefreshesLiveness ==
    [][(/\ ReceiveStep /\ Len(rx'.frame) >= 5
        /\ rx'.msg.source_id # NodeId
        /\ rx'.msg.type = MSG_TYPE_HEARTBEAT)
          => RecordUpserted(rx'.msg.source_id,
                            WasDetecting(rx'.msg.source_id))]_vars

C13_Witness ==
    /\ rx_pc = "sleep" /\ Len(rx.frame) >= 5
    /\ rx.msg.type = MSG_TYPE_HEARTBEAT
    /\ rx.msg.source_id \in DOMAIN active_nodes_
    /\ active_nodes_[rx.msg.source_id].detecting
    /\ active_nodes_[rx.msg.source_id].last_seen = MaxTime

\* C14: a receive step whose message is a detection from a peer, carrying
\* one payload byte, sets the peer's record to last_seen = now and
\* detecting = (payload byte = 1), every other record unchanged, and, a
\* callback being registered, calls it exactly once with the peer's id and
\* that detecting value (no callback registered: no call).
C14_DetectionUpdatesAndNotifies ==
    [][(/\ ReceiveStep /\ Len(rx'.frame) >= 5
        /\ rx'.msg.source_id # NodeId
        /\ rx'.msg.type = MSG_TYPE_DETECTION
        /\ rx'.msg.payload_len = 1)
          => /\ RecordUpserted(rx'.msg.source_id, rx'.msg.payload[1] = 1)
             /\ rx'.callbacks =
                    IF detection_callback_
                    THEN <<[node_id |-> rx'.msg.source_id,
                            detected |-> (rx'.msg.payload[1] = 1)]>>
                    ELSE <<>>]_vars

C14_Witness ==
    /\ rx_pc = "sleep" /\ Len(rx.frame) >= 5
    /\ rx.msg.type = MSG_TYPE_DETECTION /\ rx.msg.payload = <<1>>
    /\ rx.msg.source_id \in DOMAIN active_nodes_
    /\ active_nodes_[rx.msg.source_id].detecting
    /\ rx.callbacks = <<[node_id |-> rx.msg.source_id, detected |-> TRUE]>>

\* C15: a receive step whose message, from a peer, is an ack or of a type
\* that is none of heartbeat, detection and ack sets the peer's last_seen to
\* now, leaves its detecting flag as it was (false if the peer had no
\* record) and every other record unchanged, and makes no callback.
C15_OtherTypesTouchLivenessOnly ==
    [][(/\ ReceiveStep /\ Len(rx'.frame) >= 5
        /\ rx'.msg.source_id # NodeId
        /\ rx'.msg.type \notin {MSG_TYPE_HEARTBEAT, MSG_TYPE_DETECTION})
          => /\ RecordUpserted(rx'.msg.source_id,
                               WasDetecting(rx'.msg.source_id))
             /\ rx'.callbacks = <<>>]_vars

C15_Witness ==
    /\ rx_pc = "sleep" /\ Len(rx.frame) >= 5
    /\ rx.msg.type \notin {MSG_TYPE_HEARTBEAT, MSG_TYPE_DETECTION,
                           MSG_TYPE_ACK}
    /\ detection_callback_ /\ rx.callbacks = <<>>
    /\ rx.msg.source_id \in DOMAIN active_nodes_
    /\ active_nodes_[rx.msg.source_id].last_seen = now

(* ============================= the prune ============================== *)

\* a step in which heartbeatLoop runs cleanupStaleNodes
PruneStep == hb_pc = "prune" /\ hb_pc' = "loop"

\* C16: cleanupStaleNodes erases exactly the records with
\* now - last_seen > node_timeout_sec and leaves every other record as it
\* was; a record with now - last_seen = node_timeout_sec is kept.
C16_PruneRemovesExactlyStale ==
    [][PruneStep
          => LET stale == {n \in DOMAIN active_nodes_ :
                              now - active_nodes_[n].last_seen
                                  > config_.node_timeout_sec}
             IN  /\ DOMAIN active_nodes_' = DOMAIN active_nodes_ \ stale
                 /\ \A n \in DOMAIN active_nodes_' :
                        active_nodes_'[n] = active_nodes_[n]
                 /\ pruned' = stale]_vars

C16_Witness ==
    /\ hb_pc = "loop" /\ hb_wake = now + config_.heartbeat_interval_sec
    /\ pruned # {}
    /\ \E n \in DOMAIN active_nodes_ :
           now - active_nodes_[n].last_seen = config_.node_timeout_sec

\* C17 as stated (its second half): a peer that cleanupStaleNodes has
\* removed gets a record again only by a receive step that processes a
\* frame of at least 5 bytes carrying that peer's id as its source.
C17_EvictedUntilItSendsAgain ==
    [][\A n \in pruned :
           (n \notin DOMAIN active_nodes_ /\ n \in DOMAIN active_nodes_')
               => (/\ ReceiveStep
                   /\ Len(rx'.frame) >= 5
                   /\ rx'.frame[2] = n)]_vars

(* ================== the heartbeat cycle and the sends ================== *)

\* the bytes of the heartbeat frame: type 1, source 1, destination 0xFF,
\* payload length 0, checksum
HeartbeatBytes == <<1, 1, 255, 0, 255>>

\* C18: a cycle of heartbeatLoop starts only when the previous cycle's wait
\* is over; it first sends one heartbeat frame (source the local node id,
\* destination 0xFF, payload length 0), then runs cleanupStaleNodes with
\* node_timeout_sec, then waits heartbeat_interval_sec; the node table loses
\* records in no other step.
C18_HeartbeatCycle ==
    /\ [][(hb_pc = "loop" /\ hb_pc' # "loop")
             => (now >= hb_wake /\ hb_pc' \in {"lock", "done"})]_vars
    /\ [][(hb_pc = "lock" /\ hb_pc' # "lock")
             => (hb_pc' = "send" /\ active_nodes_' = active_nodes_)]_vars
    /\ [][(hb_pc = "send" /\ hb_pc' # "send")
             => /\ hb_pc' = "prune"
                /\ link' = HeartbeatBytes
                /\ active_nodes_' = active_nodes_]_vars
    /\ [][(hb_pc = "prune" /\ hb_pc' # "prune")
             => /\ hb_pc' = "loop"
                /\ DOMAIN active_nodes_' =
                       {n \in DOMAIN active_nodes_ :
                           now - active_nodes_[n].last_seen
                               <= config_.node_timeout_sec}
                /\ hb_wake' = now + config_.heartbeat_interval_sec]_vars
    /\ [][(DOMAIN active_nodes_ \ DOMAIN active_nodes_' # {})
             => PruneStep]_vars

C18_Witness ==
    /\ hb_pc = "loop" /\ link = HeartbeatBytes /\ pruned # {}
    /\ hb_wake = now + config_.heartbeat_interval_sec
    /\ active_nodes_ # EmptyTable

\* C19: the heartbeat thread and the main thread are never both inside
\* sendMessage; the thread inside it is the one that holds send_mutex_, and
\* what sendMessage has serialised last is one whole frame, a heartbeat or a
\* detection of this node.
C19_OneSendAtATime ==
    /\ ~(pc = "send" /\ hb_pc = "send")
    /\ pc = "send" => send_mutex_ = "main"
    /\ hb_pc = "send" => send_mutex_ = "heartbeat"
    /\ (pc # "send" /\ hb_pc # "send") => send_mutex_ = "free"
    /\ link \in {<<>>, HeartbeatBytes, TrueFrame, FalseFrame}

\* the main thread is inside sendMessage and the heartbeat thread is waiting
\* for send_mutex_
C19_Witness ==
    /\ pc = "send" /\ hb_pc = "lock" /\ send_mutex_ = "main"
    /\ link = HeartbeatBytes

\* C20: once shutdown() has returned both threads have been joined, and no
\* later step changes the node table, sends a frame, processes a received
\* frame or moves either thread.
C20_ShutdownJoinsBoth ==
    /\ [](pc = "stopped"
             => /\ rx_pc = "joined" /\ hb_pc = "joined"
                /\ send_mutex_ = "free" /\ ~is_initialized_)
    /\ [][pc = "stopped"
             => UNCHANGED <<active_nodes_, fineVars, meshThreadVars>>]_vars

C20_Witness ==
    /\ pc = "stopped" /\ rx_pc = "joined" /\ hb_pc = "joined"
    /\ link # <<>> /\ active_nodes_ # EmptyTable

(* ----------------------- claims about the codec ----------------------- *)

\* deserializeMessage has returned for the bytes in codec.frame
Decoded == codec.stage = "decoded"

\* the messages deserializeMessage returns for whole, undamaged frames
DecodedFromWholeFrames ==
    UNION {DeserializeMessage(SerializeMessage(m)) : m \in CodecMessages}

\* C23: decoding reports "Payload too large" for every frame of at least 5
\* bytes whose declared payload_len is above MAX_PAYLOAD_SIZE, and for every
\* such frame whose declared payload_len is above the number of bytes
\* received after the header and before the checksum byte.
C23_PayloadTooLarge ==
    (/\ Decoded
     /\ Len(codec.frame) >= 5
     /\ \/ codec.frame[4] > MAX_PAYLOAD_SIZE
        \/ codec.frame[4] > Len(codec.frame) - 5)
        => codec.log = <<"Payload too large">>

\* C24: the result of decoding fewer than 5 bytes is one the caller can tell
\* from every successfully decoded message, and 5 bytes with payload_len 0
\* decode without an error.
C24_TooShortIsDistinguishable ==
    /\ (Decoded /\ Len(codec.frame) < 5)
           => codec.msg \notin DecodedFromWholeFrames
    /\ (Decoded /\ Len(codec.frame) = 5 /\ codec.frame[4] = 0)
           => codec.log \in {<<>>, <<"Checksum mismatch">>}

\* deserializeMessage has returned for the unaltered output of
\* serializeMessage on codec.m
RoundTrip == Decoded /\ codec.m # <<>> /\ codec.flipped = 0

\* C25: decoding the encoding of a message with payload_len <= 64 gives back
\* its type, source, destination, payload length and payload bytes, and logs
\* no checksum mismatch (nor any other error).
C25_RoundTrip ==
    RoundTrip =>
        /\ codec.m.payload_len <= MAX_PAYLOAD_SIZE
        /\ codec.msg.type = codec.m.type
        /\ codec.msg.source_id = codec.m.source_id
        /\ codec.msg.destination_id = codec.m.destination_id
        /\ codec.msg.payload_len = codec.m.payload_len
        /\ codec.msg.payload = codec.m.payload
        /\ codec.log = <<>>

\* a message with a payload of the full MAX_PAYLOAD_SIZE bytes has made the
\* round trip
C25_Witness ==
    RoundTrip /\ codec.m.payload_len = MAX_PAYLOAD_SIZE

\* bit k of byte b
Bit(b, k) == (b \div (2 ^ k)) % 2

\* serializeMessage has returned the bytes in codec.frame for codec.m
Encoded == codec.stage = "encoded"

\* C26: the encoding of a message is exactly payload_len + 5 bytes: type,
\* source, destination, payload_len, the payload bytes, and a last byte that
\* is the XOR of all bytes before it (bit k of it is set exactly when bit k
\* is set in an odd number of them).  Every byte is fixed by the type, source,
\* destination and payload, so the output is a function of them.
C26_EncodedLayout ==
    Encoded =>
        LET n == codec.m.payload_len
            frame == codec.frame
        IN  /\ Len(frame) = n + 5
            /\ frame[1] = codec.m.type
            /\ frame[2] = codec.m.source_id
            /\ frame[3] = codec.m.destination_id
            /\ frame[4] = n
            /\ \A i \in 1..n : frame[4 + i] = codec.m.payload[i]
            /\ \A k \in 0..7 :
                   Bit(frame[n + 5], k)
                       = Cardinality({i \in 1..(n + 4) : Bit(frame[i], k) = 1})
                             % 2

\* a detection with a payload of more than one byte has been encoded
C26_Witness ==
    /\ Encoded
    /\ codec.m.type = MSG_TYPE_DETECTION
    /\ codec.m.payload_len > 1
    /\ codec.frame[Len(codec.frame)] # 0

\* deserializeMessage has returned for the encoding of codec.m with one bit
\* of byte codec.flipped inverted
FlipDecoded == Decoded /\ codec.flipped > 0

\* the fields of the decoded message, other than the one held (wholly or in
\* part) by byte i of the frame, are those of the message encoded
FieldsIntactExcept(i) ==
    /\ i # 1 => codec.msg.type = codec.m.type
    /\ i # 2 => codec.msg.source_id = codec.m.source_id
    /\ i # 3 => codec.msg.destination_id = codec.m.destination_id
    /\ i # 4 => codec.msg.payload_len = codec.m.payload_len
    /\ i \notin 5..(4 + codec.m.payload_len)
           => codec.msg.payload = codec.m.payload

\* C27 as stated: after any single bit of an encoded frame is inverted,
\* decoding logs a checksum mismatch and every field other than the one
\* holding the inverted bit decodes to the value sent.
C27_AnyBitFlipDetected ==
    FlipDecoded =>
        /\ codec.log = <<"Checksum mismatch">>
        /\ FieldsIntactExcept(codec.flipped)

\* C27: after a single bit of the type, source, destination, a payload byte
\* or the checksum byte of an encoded frame is inverted, decoding logs a
\* checksum mismatch and every field other than the one holding the inverted
\* bit decodes to the value sent; an inverted bit of the payload_len byte
\* that makes the declared length exceed MAX_PAYLOAD_SIZE is logged as a
\* payload that is too large, with no checksum mismatch.
C27_BitFlipOutsideLengthDetected ==
    FlipDecoded =>
        IF codec.flipped # 4
        THEN /\ codec.log = <<"Checksum mismatch">>
             /\ FieldsIntactExcept(codec.flipped)
        ELSE codec.frame[4] > MAX_PAYLOAD_SIZE
                 => codec.log = <<"Payload too large">>

\* a frame with an inverted bit in its second payload byte has been decoded
C27_Witness ==
    /\ FlipDecoded
    /\ codec.flipped = 6
    /\ codec.m.payload_len = 2
    /\ codec.log = <<"Checksum mismatch">>

(* ---------------- claims about damaged frames and the core ------------- *)

\* frame is header, declared payload and one more byte, and that byte is not
\* the XOR of the bytes before it
BadChecksum(frame) ==
    /\ Len(frame) >= 5
    /\ frame[4] <= MAX_PAYLOAD_SIZE
    /\ Len(frame) = frame[4] + 5
    /\ frame[Len(frame)] # Checksum(frame, Len(frame) - 1)

\* C28: a receive step on a frame from a peer whose last byte is not the
\* checksum of the rest is processed like a valid frame: the sender's record
\* is inserted or refreshed with last_seen = now, and for a detection with
\* one payload byte the detecting flag is (payload byte = 1) and the
\* registered callback is called once with the sender's id and that value.
C28_BadChecksumStillProcessed ==
    [][(/\ ReceiveStep
        /\ BadChecksum(rx'.frame)
        /\ rx'.frame[2] # NodeId)
          => IF rx'.frame[1] = MSG_TYPE_DETECTION /\ rx'.frame[4] = 1
             THEN /\ RecordUpserted(rx'.frame[2], rx'.frame[5] = 1)
                  /\ rx'.callbacks =
                         IF detection_callback_
                         THEN <<[node_id |-> rx'.frame[2],
                                 detected |-> (rx'.frame[5] = 1)]>>
                         ELSE <<>>
             ELSE \E d \in BOOLEAN : RecordUpserted(rx'.frame[2], d)]_vars

\* a detection with a wrong checksum has set its sender's flag and reached
\* the callback
C28_Witness ==
    /\ rx_pc = "sleep"
    /\ BadChecksum(rx.frame)
    /\ rx.frame[1] = MSG_TYPE_DETECTION
    /\ rx.frame[2] \in DOMAIN active_nodes_
    /\ active_nodes_[rx.frame[2]].detecting
    /\ rx.callbacks = <<[node_id |-> rx.frame[2], detected |-> TRUE]>>

\* a step of the periodic tick: the main thread moves inside
\* SentinelCore::run, and the mesh threads and the node table stand still
TickStep ==
    /\ pc \in {"run", "chk", "eval", "trigger"}
    /\ pc' \in {"run", "chk", "eval", "trigger"}
    /\ UNCHANGED <<active_nodes_, meshThreadVars, fineVars>>

\* a step of the receive activity or of the heartbeat activity
MeshThreadStep ==
    \/ rx_pc' # rx_pc
    \/ hb_pc' # hb_pc
    \/ hb_wake' # hb_wake
    \/ active_nodes_' # active_nodes_

\* C29: alert_state_, consensus_start_time_ and alert_start_time_ change
\* only in a step of the periodic tick; no step of the receive activity (the
\* detection callback included) or of the heartbeat activity changes them.
C29_AlertStateChangesOnlyInTick ==
    /\ [][coreVars' # coreVars => TickStep]_vars
    /\ [][MeshThreadStep => UNCHANGED coreVars]_vars

\* the callback is registered, a peer has been recorded as detecting by the
\* receive activity, and the core is still idle
C29_Witness ==
    /\ detection_callback_
    /\ DetectingPeers # {}
    /\ alert_state_ = IDLE
    /\ pc = "run"

(* ------------------ claims about the mesh life cycle ------------------- *)

\* neither mesh thread is running or waiting to be joined, and the flag is
\* clear
MeshStopped ==
    /\ ~is_initialized_
    /\ rx_pc \in {"off", "joined"}
    /\ hb_pc \in {"off", "joined"}

\* the main thread takes a step of LoraMesh::shutdown
ShutdownStep == pc \in {"shutdown", "join_rx", "join_hb"} /\ pc' # pc

\* C21: a call of shutdown() on a mesh that is stopped already (shut down
\* before, or never successfully initialised) does not fault and changes
\* nothing of the mesh; a thread is joined only when it has run and has not
\* been joined before.
C21_ShutdownIdempotent ==
    /\ [](pc # "fault")
    /\ [][(MeshStopped /\ ShutdownStep)
             => /\ MeshStopped'
                /\ UNCHANGED <<is_initialized_, meshThreadVars, active_nodes_,
                               detection_callback_, fineVars>>]_vars
    /\ [][(rx_pc' = "joined" /\ rx_pc # "joined")
             => (rx_pc = "done" /\ pc = "join_rx")]_vars
    /\ [][(hb_pc' = "joined" /\ hb_pc # "joined")
             => (hb_pc = "done" /\ pc = "join_hb")]_vars

\* a later call of shutdown() has passed the receive thread, joined before,
\* and stands at the heartbeat thread, joined before
C21_Witness ==
    /\ pc = "join_hb"
    /\ rx_pc = "joined"
    /\ hb_pc = "joined"
    /\ active_nodes_ # EmptyTable

\* LoraMesh::initialize has returned false
InitializeFailed == pc # "init" /\ rx_pc = "off"

\* C30: when the radio cannot be opened or configured, initialize() returns
\* false with neither thread started and the flag clear, it is not called
\* again, and the program goes to shutdown without a single pass of the
\* detection loop: no tick, no callback registered, nothing sent or received.
C30_FailedInitializeStartsNothing ==
    /\ [](InitializeFailed
             => /\ hb_pc = "off"
                /\ ~is_initialized_
                /\ ~detection_callback_
                /\ pc \in {"init_failed", "shutdown", "join_rx", "join_hb",
                           "stopped"}
                /\ tick = NoTick
                /\ active_nodes_ = EmptyTable
                /\ link = <<>>)
    /\ [](pc = "init_failed" => InitializeFailed)
    /\ [][pc = "init_failed" => pc' \in {"init_failed", "shutdown"}]_vars

\* after a failed initialize() the program has run to the end of shutdown
C30_Witness ==
    /\ InitializeFailed
    /\ pc = "stopped"
    /\ ~g_running

\* the flag has been cleared by shutdown(), which has not returned yet
FlagCleared == pc \in {"join_rx", "join_hb"}

\* C22: shutdown() terminates: once it has been called it returns.  After it
\* has cleared the flag the receive thread starts no further pass (it ends
\* the sleep it is in, at most, and returns at its next loop test) and the
\* heartbeat thread starts no further cycle (it ends the cycle and the sleep
\* it is in, at most, and returns at its next loop test).
C22_ShutdownTerminates ==
    /\ (pc = "shutdown") ~> (pc = "stopped")
    /\ (FlagCleared /\ rx_pc \in {"loop", "sleep"}) ~> (rx_pc = "done")
    /\ (FlagCleared /\ hb_pc # "done" /\ hb_pc # "joined") ~> (hb_pc = "done")
    /\ [][FlagCleared
             => /\ ~(rx_pc = "loop" /\ rx_pc' = "sleep")
                /\ ~(hb_pc = "loop" /\ hb_pc' = "lock")]_vars

\* shutdown() found the heartbeat thread asleep, the sleep has run out after
\* the flag was cleared, and the thread has returned
C22_Witness ==
    /\ pc = "join_hb"
    /\ hb_pc = "done"
    /\ now > MaxTime

(* -------------- claims about the evaluation and the alert ------------- *)

\* C32 as stated: in every evaluation the detecting figure used (detecting
\* peers plus the node itself) is at most the total used (active peers plus
\* one), so the ratio is at most 1.
C32_RatioAtMostOne ==
    [][(pc = "eval" /\ pc' # "eval")
          => DetectingNodes(GetDetectingNodeCount(active_nodes_),
                            detection_data_) <= total_nodes]_vars

\* C33 as stated: the detecting-node figure triggerAlert reports is the
\* detecting figure of the evaluation that raised the alert.
C33_ReportedCountIsCountUsed ==
    [][(pc = "trigger" /\ pc' # "trigger")
          => tick'.reported = detecting_nodes]_vars

\* C34: triggerAlert is called exactly when the state goes from Pending to
\* Alert, once, and at no other step: the state enters Alert only from
\* Pending and only in the step of evaluateConsensus that goes on to
\* triggerAlert; triggerAlert is reached by no other step, runs once and
\* returns to the loop; and a tick has called it exactly if it did not start
\* in Alert and ends in Alert.
C34_AlertSinkOncePerAlert ==
    /\ [][(alert_state_ # ALERT /\ alert_state_' = ALERT)
             => (alert_state_ = PENDING /\ pc = "eval" /\ pc' = "trigger")]_vars
    /\ [][(pc # "trigger" /\ pc' = "trigger")
             => (alert_state_ = PENDING /\ alert_state_' = ALERT)]_vars
    /\ [][(pc = "trigger" /\ pc' # "trigger")
             => (/\ tick.reported = -1 /\ tick'.reported # -1
                 /\ pc' = "run" /\ alert_state_' = ALERT)]_vars
    /\ [][tick'.reported # tick.reported
             => (pc = "trigger" \/ tick'.reported = -1)]_vars
    /\ [](TickDone
             => ((tick.reported # -1)
                     <=> (tick.pre # ALERT /\ tick.pre # "NONE"
                          /\ alert_state_ = ALERT)))

\* a tick that started in Pending has raised the alert and reported
C34_Witness ==
    /\ TickDone
    /\ tick.pre = PENDING
    /\ alert_state_ = ALERT
    /\ tick.reported > 1

(* ================= LoraMesh, nodes_mutex_ lock by lock ================= *)

\* the state the specifications of the codec, of the peer and of the sensor
\* keep for themselves
sideVars == <<codec, pair, sensor>>

\* processMessage, lines 156-162: receiveLoop has a frame decoded (lines
\* 117-123); a message of this node returns at once, any other waits for
\* nodes_mutex_ and takes it
ProcessMessage_Lock ==
    /\ rx_pc = "loop"
    /\ is_initialized_
    /\ \E frame \in Frames :
         /\ Len(frame) >= 5 => frame[2] \in in_range \cup {NodeId}
         /\ \E msg \in DeserializeMessage(frame) :
               /\ rx' = [frame |-> frame, msg |-> msg, callbacks |-> <<>>]
               /\ IF msg.source_id = NodeId
                  THEN /\ rx_pc' = "sleep"
                       /\ UNCHANGED nodes_mutex_
                  ELSE /\ MutexFree(nodes_mutex_)
                       /\ nodes_mutex_' = "receive"
                       /\ rx_pc' = "locked"
    /\ UNCHANGED <<sideVars, callback_reenters, now, in_range, config_,
                   g_running, pc, detection_data_, coreVars, evalVars,
                   is_initialized_, detection_callback_, active_nodes_,
                   hb_pc, hb_wake, tick, send_mutex_, link, pruned>>

\* processMessage, lines 164-184: the sender's record is written, and a
\* Detection message with a callback registered goes on to invoke it
ProcessMessage_Update ==
    /\ rx_pc = "locked"
    /\ active_nodes_' = ProcessMessage(active_nodes_, rx.msg, now)
    /\ rx_pc' = IF Callbacks(rx.msg, detection_callback_) # <<>>
                THEN "callback" ELSE "unlock"
    /\ UNCHANGED <<sideVars, nodes_mutex_, callback_reenters, now, in_range,
                   config_, g_running, pc, detection_data_, coreVars,
                   evalVars, is_initialized_, detection_callback_, hb_pc,
                   hb_wake, tick, send_mutex_, link, rx, pruned>>

\* mutant: nodes_mutex_ is a std::recursive_mutex
Relock_Recursive(mutex, thread) ==
    IF mutex = "free" \/ mutex = thread THEN {"acquired"} ELSE {"blocked"}

\* std::lock_guard on a std::mutex, asked for by `thread`: with the mutex held
\* by another thread or by `thread` itself the constructor does not return
\* (the second is undefined in C++; the target is Linux, whose default
\* pthread mutex blocks its owner)
Relock(mutex, thread) ==
    IF mutex = "free" THEN {"acquired"} ELSE {"blocked"}

\* processMessage, line 185: detection_callback_ is invoked.
\* handleMeshDetection (sentinel_core.cpp 64-67) returns; a callback that
\* calls getActiveNodeCount (lines 283-286) asks for nodes_mutex_ on the
\* thread that holds it
ProcessMessage_Callback ==
    /\ rx_pc = "callback"
    /\ IF callback_reenters
          /\ "acquired" \notin Relock(nodes_mutex_, "receive")
       THEN /\ rx_pc' = "reenter"
            /\ UNCHANGED <<rx, coreVars>>
       ELSE /\ rx' = [rx EXCEPT
                        !.callbacks = Callbacks(rx.msg, detection_callback_)]
            /\ LET core == HandleMeshDetection(
                               coreVars,
                               Callbacks(rx.msg, detection_callback_))
               IN  /\ alert_state_' = core[1]
                   /\ consensus_start_time_' = core[2]
                   /\ alert_start_time_' = core[3]
            /\ rx_pc' = "unlock"
    /\ UNCHANGED <<sideVars, lockVars, now, in_range, config_, g_running, pc,
                   detection_data_, evalVars, is_initialized_,
                   detection_callback_, active_nodes_, hb_pc, hb_wake, tick,
                   send_mutex_, link, pruned>>

\* processMessage, line 200: the lock_guard releases nodes_mutex_; receiveLoop
\* goes on to its sleep_for (line 126)
ProcessMessage_Unlock ==
    /\ rx_pc = "unlock"
    /\ nodes_mutex_' = "free"
    /\ rx_pc' = "sleep"
    /\ UNCHANGED <<sideVars, callback_reenters, now, in_range, config_,
                   g_running, pc, detection_data_, coreVars, evalVars,
                   is_initialized_, detection_callback_, active_nodes_,
                   hb_pc, hb_wake, tick, send_mutex_, link, rx, pruned>>

\* heartbeatLoop, lines 135-147, and cleanupStaleNodes, line 203: the
\* heartbeat is sent and cleanupStaleNodes takes nodes_mutex_
CleanupStaleNodes_Lock ==
    /\ hb_pc = "loop"
    /\ now >= hb_wake
    /\ is_initialized_
    /\ MutexFree(nodes_mutex_)
    /\ link' = HeartbeatFrame
    /\ nodes_mutex_' = "heartbeat"
    /\ hb_pc' = "pruning"
    /\ UNCHANGED <<sideVars, callback_reenters, now, in_range, config_,
                   g_running, pc, detection_data_, coreVars, evalVars,
                   is_initialized_, detection_callback_, active_nodes_,
                   rx_pc, hb_wake, tick, send_mutex_, rx, pruned>>

\* cleanupStaleNodes, lines 205-216, and heartbeatLoop, line 150: the stale
\* records are erased, the lock_guard releases nodes_mutex_ and the thread
\* sleeps for heartbeat_interval_sec
CleanupStaleNodes_Unlock ==
    /\ hb_pc = "pruning"
    /\ active_nodes_' = CleanupStaleNodes(active_nodes_, now,
                                          config_.node_timeout_sec)
    /\ pruned' = {n \in DOMAIN active_nodes_ :
                      IsStale(now, active_nodes_[n].last_seen,
                              config_.node_timeout_sec)}
    /\ nodes_mutex_' = "free"
    /\ hb_wake' = now + config_.heartbeat_interval_sec
    /\ hb_pc' = "loop"
    /\ UNCHANGED <<sideVars, callback_reenters, now, in_range, config_,
                   g_running, pc, detection_data_, coreVars, evalVars,
                   is_initialized_, detection_callback_, rx_pc, tick,
                   send_mutex_, link, rx>>

\* mutant: getActiveNodeCount reads the table without taking nodes_mutex_
GetActiveNodeCount_Lock_NoLock ==
    /\ pc = "run"
    /\ g_running
    /\ pc' = "count_active"
    /\ UNCHANGED <<sideVars, lockVars, now, in_range, config_,
                   g_running, detection_data_, coreVars, evalVars,
                   is_initialized_, detection_callback_, active_nodes_,
                   meshThreadVars, tick, fineVars>>

\* The main thread, in the loop of run(), reaches evaluateConsensus
\* (sentinel_core.cpp 181): getActiveNodeCount, line 284, takes nodes_mutex_.
\* What brought the alert state to the evaluation is left open here.
GetActiveNodeCount_Lock ==
    /\ pc = "run"
    /\ g_running
    /\ MutexFree(nodes_mutex_)
    /\ nodes_mutex_' = "main"
    /\ pc' = "count_active"
    /\ UNCHANGED <<sideVars, callback_reenters, now, in_range, config_,
                   g_running, detection_data_, coreVars, evalVars,
                   is_initialized_, detection_callback_, active_nodes_,
                   meshThreadVars, tick, fineVars>>

\* getActiveNodeCount, lines 285-286: the size is read and the lock_guard
\* releases nodes_mutex_; evaluateConsensus goes on to getDetectingNodeCount
GetActiveNodeCount_Unlock ==
    /\ pc = "count_active"
    /\ total_nodes' = TotalNodes(GetActiveNodeCount(active_nodes_))
    /\ nodes_mutex_' = "free"
    /\ pc' = "count_wait"
    /\ UNCHANGED <<sideVars, callback_reenters, now, in_range, config_,
                   g_running, detection_data_, coreVars, detecting_nodes,
                   is_initialized_, detection_callback_, active_nodes_,
                   meshThreadVars, tick, fineVars>>

\* getDetectingNodeCount, line 289: the lock_guard takes nodes_mutex_
GetDetectingNodeCount_Lock ==
    /\ pc = "count_wait"
    /\ MutexFree(nodes_mutex_)
    /\ nodes_mutex_' = "main"
    /\ pc' = "count_detecting"
    /\ UNCHANGED <<sideVars, callback_reenters, now, in_range, config_,
                   g_running, detection_data_, coreVars, evalVars,
                   is_initialized_, detection_callback_, active_nodes_,
                   meshThreadVars, tick, fineVars>>

\* getDetectingNodeCount, lines 291-297: the detecting records are counted
\* and the lock_guard releases nodes_mutex_
GetDetectingNodeCount_Unlock ==
    /\ pc = "count_detecting"
    /\ detecting_nodes' = DetectingNodes(
                              GetDetectingNodeCount(active_nodes_),
                              detection_data_)
    /\ nodes_mutex_' = "free"
    /\ pc' = "counted"
    /\ UNCHANGED <<sideVars, callback_reenters, now, in_range, config_,
                   g_running, detection_data_, coreVars, total_nodes,
                   is_initialized_, detection_callback_, active_nodes_,
                   meshThreadVars, tick, fineVars>>

\* evaluateConsensus returns and its locals are gone
EvaluateConsensus_Return ==
    /\ pc = "counted"
    /\ total_nodes' = 0
    /\ detecting_nodes' = 0
    /\ pc' = "run"
    /\ UNCHANGED <<auxVars, now, in_range, config_, g_running,
                   detection_data_, coreVars, is_initialized_,
                   detection_callback_, active_nodes_, meshThreadVars, tick,
                   fineVars>>

\* the steps a thread takes while it holds nodes_mutex_
NodesHeld ==
    \/ ProcessMessage_Update
    \/ ProcessMessage_Callback
    \/ ProcessMessage_Unlock
    \/ CleanupStaleNodes_Unlock
    \/ GetActiveNodeCount_Unlock
    \/ GetDetectingNodeCount_Unlock

\* LoraMesh with every access of the node table taken lock by lock
NextNodes ==
    \/ Initialize_StartReceive
    \/ Initialize_StartHeartbeat
    \/ Initialize_Return
    \/ SetDetectionCallback
    \/ ExitRun
    \/ Shutdown_ClearFlag
    \/ Shutdown_JoinReceive
    \/ Shutdown_JoinHeartbeat
    \/ ReceiveLoop_Exit
    \/ ProcessMessage_Lock
    \/ ProcessMessage_Update
    \/ ProcessMessage_Callback
    \/ ProcessMessage_Unlock
    \/ ReceiveLoop_Sleep
    \/ HeartbeatLoop_Exit
    \/ CleanupStaleNodes_Lock
    \/ CleanupStaleNodes_Unlock
    \/ GetActiveNodeCount_Lock
    \/ GetActiveNodeCount_Unlock
    \/ GetDetectingNodeCount_Lock
    \/ GetDetectingNodeCount_Unlock
    \/ EvaluateConsensus_Return
    \/ AdvanceClock

\* a thread that holds nodes_mutex_ is running: no step it takes under the
\* lock waits for another thread
SpecNodes == InitMesh /\ [][NextNodes]_vars /\ WF_vars(NodesHeld)

\* setDetectionCallback, lora_mesh.h 60-62, takes any std::function: here
\* the owner of the mesh registers one that calls getActiveNodeCount on it
SetDetectionCallback_Reentrant ==
    /\ pc = "set_cb"
    /\ detection_callback_' = TRUE
    /\ callback_reenters' = TRUE
    /\ pc' = "run"
    /\ UNCHANGED <<sideVars, nodes_mutex_, fineVars, now, in_range, config_,
                   g_running, detection_data_, coreVars, evalVars,
                   is_initialized_, active_nodes_, meshThreadVars, tick>>

\* LoraMesh under either kind of callback
NextCallback ==
    \/ NextNodes
    \/ SetDetectionCallback_Reentrant

SpecCallback == InitMesh /\ [][NextCallback]_vars

(* --------------------- claims about nodes_mutex_ ---------------------- *)

\* the threads that are inside an access of the node table
TableHolders ==
    {t \in {"receive", "heartbeat", "main"} :
        \/ t = "receive"
           /\ rx_pc \in {"locked", "callback", "reenter", "unlock"}
        \/ t = "heartbeat" /\ hb_pc = "pruning"
        \/ t = "main" /\ pc \in {"count_active", "count_detecting"}}

\* the steps the holder of nodes_mutex_ has left before it releases it
HoldRank ==
    IF nodes_mutex_ = "receive"
    THEN CASE rx_pc = "locked" -> 3
           [] rx_pc = "callback" -> 2
           [] rx_pc = "unlock" -> 1
           [] OTHER -> 4
    ELSE IF nodes_mutex_ = "free" THEN 0 ELSE 1

\* a step of the thread that holds nodes_mutex_
HolderStep ==
    \/ nodes_mutex_ = "receive" /\ rx_pc' # rx_pc
    \/ nodes_mutex_ = "heartbeat" /\ hb_pc' # hb_pc
    \/ nodes_mutex_ = "main" /\ pc' # pc

\* C31: the upsert of the receive path, the prune and the two counts are
\* mutually exclusive: at most one thread is inside an access of the node
\* table, it is the holder of nodes_mutex_, the table is written only by the
\* holder, and the holder releases the lock after at most three steps of its
\* own, none of which waits for another thread.
C31_TableAccessExclusive ==
    /\ [](/\ Cardinality(TableHolders) <= 1
          /\ TableHolders = IF nodes_mutex_ = "free" THEN {}
                            ELSE {nodes_mutex_})
    /\ [][active_nodes_' # active_nodes_
             => nodes_mutex_ \in {"receive", "heartbeat"}]_vars
    /\ [][evalVars' # evalVars
             => (nodes_mutex_ = "main" \/ pc = "counted")]_vars
    /\ [][HolderStep => (HoldRank <= 3 /\ HoldRank' < HoldRank)]_vars
    /\ [][nodes_mutex_ # "free"
             => (nodes_mutex_' = nodes_mutex_ \/ nodes_mutex_' = "free")]_vars
    /\ (nodes_mutex_ # "free") ~> (nodes_mutex_ = "free")

\* the receive thread is in the callback under the lock while the heartbeat
\* thread is due to prune and the main thread is between its two counts
C31_Witness ==
    /\ nodes_mutex_ = "receive"
    /\ rx_pc = "callback"
    /\ pc = "count_wait"
    /\ hb_pc = "loop"
    /\ now >= hb_wake
    /\ is_initialized_
    /\ active_nodes_ # EmptyTable

\* the receive thread is inside the call of detection_callback_
InCallback == rx_pc \in {"callback", "reenter"}

\* C39: the detection callback runs with nodes_mutex_ held by the receive
\* thread; until it returns no other thread is inside or completes
\* getActiveNodeCount, getDetectingNodeCount or a prune and the table is not
\* written; and a callback that itself calls getActiveNodeCount on the same
\* mesh never returns: the receive thread stays in the nested lock for ever,
\* still holding nodes_mutex_.
C39_CallbackUnderLock ==
    /\ [](InCallback => (nodes_mutex_ = "receive"
                         /\ TableHolders = {"receive"}))
    /\ [][InCallback
             => /\ pc' \notin {"count_active", "count_detecting"}
                /\ hb_pc' # "pruning"
                /\ nodes_mutex_' = "receive"
                /\ UNCHANGED <<active_nodes_, pruned>>
                /\ (pc = "count_wait" => pc' = "count_wait")]_vars
    /\ [][(rx_pc = "callback" /\ callback_reenters)
             => rx_pc' \in {"callback", "reenter"}]_vars
    /\ [][rx_pc = "reenter"
             => (rx_pc' = "reenter" /\ nodes_mutex_' = "receive")]_vars

\* the callback has asked for the lock again while the main thread waits for
\* its second count and the heartbeat thread is due to prune
C39_Witness ==
    /\ rx_pc = "reenter"
    /\ callback_reenters
    /\ nodes_mutex_ = "receive"
    /\ pc = "count_wait"
    /\ hb_pc = "loop"
    /\ now >= hb_wake
    /\ is_initialized_

(* ================== a node and a peer that hears it ================== *)

\* the peer whose node table is followed
PeerId == NodeId + 1

\* LoraMesh::processMessage in the mesh of node `self`: the node table after
\* the message
ProcessMessageAt(self, nodes, msg, t) ==
    IF msg.source_id = self THEN nodes
    ELSE LET old  == IF msg.source_id \in DOMAIN nodes
                     THEN nodes[msg.source_id] ELSE NodeInfoDefault
             node == [detecting |-> IF msg.type = MSG_TYPE_DETECTION
                                    THEN msg.p0 = 1 ELSE old.detecting,
                      last_seen |-> t]
         IN  [n \in DOMAIN nodes \cup {msg.source_id} |->
                  IF n = msg.source_id THEN node ELSE nodes[n]]

\* receiveLoop of node `self`, lines 118-124, over the frames that reach it
\* in the order they were sent
RECURSIVE ReceiveAll(_, _, _, _)
ReceiveAll(self, nodes, frames, t) ==
    IF frames = <<>> THEN nodes
    ELSE LET msg == CHOOSE m \in DeserializeMessage(Head(frames)) : TRUE
         IN  ReceiveAll(self, ProcessMessageAt(self, nodes, msg, t),
                        Tail(frames), t)

\* the detected flag each of the frames carries, as processMessage reads it
RECURSIVE DetectedFlags(_)
DetectedFlags(frames) ==
    IF frames = <<>> THEN <<>>
    ELSE LET msg == CHOOSE m \in DeserializeMessage(Head(frames)) : TRUE
         IN  <<msg.p0 = 1>> \o DetectedFlags(Tail(frames))

\* the last two elements of a sequence
LastTwo(seq) ==
    IF Len(seq) <= 2 THEN seq ELSE SubSeq(seq, Len(seq) - 1, Len(seq))

\* mutant: the clearing branch broadcasts from IDLE as well
UpdateAlertState_ClearsFromIdle(state, cstart, astart, data, t, nodes, cfg) ==
    [state |-> IF LocalDetection(data) THEN PENDING ELSE IDLE,
     cstart |-> cstart, astart |-> astart,
     bcasts |-> BroadcastDetection(<<>>, LocalDetection(data)),
     evaluated |-> FALSE, reported |-> -1]

\* SentinelCore::updateAlertState, with evaluateConsensus and triggerAlert,
\* run with no step of another thread in between: the state and the two
\* times it leaves, the frames it broadcasts, whether it evaluated the
\* consensus and the figure triggerAlert logged
UpdateAlertState(state, cstart, astart, data, t, nodes, cfg) ==
    IF LocalDetection(data)
    THEN LET e == EnterPending(state, cstart, t)
         IN  IF /\ e.state = PENDING
                /\ ConsensusWindowExpired(t, e.start,
                                          cfg.consensus_timeout_sec)
             THEN LET total == TotalNodes(GetActiveNodeCount(nodes))
                      det   == DetectingNodes(GetDetectingNodeCount(nodes),
                                              data)
                      out   == ConsensusOutcome(det, total)
                  IN  [state |-> out, cstart |-> e.start,
                       astart |-> IF out = ALERT THEN t ELSE astart,
                       bcasts |-> e.bcasts, evaluated |-> TRUE,
                       reported |->
                           IF out = ALERT
                           THEN ReportedDetectingNodes(
                                    GetDetectingNodeCount(nodes))
                           ELSE -1]
             ELSE [state |-> e.state, cstart |-> e.start, astart |-> astart,
                   bcasts |-> e.bcasts, evaluated |-> FALSE, reported |-> -1]
    ELSE LET c == ClearOnNoDetection(state, t, astart,
                                     cfg.alert_duration_sec)
         IN  [state |-> c.state, cstart |-> cstart, astart |-> astart,
              bcasts |-> c.bcasts, evaluated |-> FALSE, reported |-> -1]

\* One iteration of the loop of run(): checkSensor and checkVision store what
\* the detectors report and updateAlertState runs to its end; the peer's
\* receiveLoop gets every frame the call broadcast
Pair_Tick ==
    /\ pc = "run"
    /\ g_running
    /\ UNCHANGED <<codec, lockVars, sensor, fineVars, now, in_range, config_,
                   g_running, pc, evalVars, is_initialized_,
                   detection_callback_, active_nodes_, meshThreadVars>>
    /\ \E data \in BOOLEAN :
         \E u \in {UpdateAlertState(alert_state_, consensus_start_time_,
                                    alert_start_time_, data, now,
                                    active_nodes_, config_)} :
             /\ detection_data_' = data
             /\ alert_state_' = u.state
             /\ consensus_start_time_' = u.cstart
             /\ alert_start_time_' = u.astart
             /\ tick' = [pre |-> alert_state_,
                         due |->
                            \/ /\ alert_state_ = PENDING
                               /\ now - consensus_start_time_
                                      >= config_.consensus_timeout_sec
                            \/ /\ alert_state_ = ALERT
                               /\ now - alert_start_time_
                                      >= config_.alert_duration_sec,
                         bcasts |-> u.bcasts, evaluated |-> u.evaluated,
                         reported |-> u.reported]
             /\ pair' = [peer_nodes |-> ReceiveAll(PeerId, pair.peer_nodes,
                                                   u.bcasts, now),
                         sent |-> LastTwo(pair.sent
                                          \o DetectedFlags(u.bcasts)),
                         prev |-> tick]

\* One pass of heartbeatLoop, lines 135-150: the heartbeat is sent and
\* reaches the peer's receiveLoop, cleanupStaleNodes runs and the thread
\* sleeps for heartbeat_interval_sec
Pair_Heartbeat ==
    /\ hb_pc = "loop"
    /\ now >= hb_wake
    /\ is_initialized_
    /\ active_nodes_' = CleanupStaleNodes(active_nodes_, now,
                                          config_.node_timeout_sec)
    /\ hb_wake' = now + config_.heartbeat_interval_sec
    /\ pair' = [pair EXCEPT
                  !.peer_nodes = ReceiveAll(PeerId, pair.peer_nodes,
                                            <<HeartbeatFrame>>, now)]
    /\ UNCHANGED <<codec, lockVars, sensor, fineVars, now, in_range, config_,
                   g_running, pc, detection_data_, coreVars, evalVars,
                   is_initialized_, detection_callback_, rx_pc, hb_pc, tick>>

\* cleanupStaleNodes, lines 202-216, in the peer's heartbeatLoop; the peer
\* runs the same program with the same configuration
Pair_PeerCleanup ==
    /\ pair' = [pair EXCEPT
                  !.peer_nodes = CleanupStaleNodes(pair.peer_nodes, now,
                                                   config_.node_timeout_sec)]
    /\ UNCHANGED <<codec, lockVars, sensor, progVars>>

\* the node while it runs, and the peer
NextPair ==
    \/ Initialize_StartReceive
    \/ Initialize_StartHeartbeat
    \/ Initialize_Return
    \/ SetDetectionCallback
    \/ Pair_Tick
    \/ ReceiveLoop_Frame
    \/ Pair_Heartbeat
    \/ Pair_PeerCleanup
    \/ AdvanceClock

\* Every thread of the node and of the peer keeps running, and time passes.
\* What the detectors report is an input: nothing is asked of the iterations
\* of run(), whose only steps that change the state are those the detectors
\* or the timers cause.
SpecPair ==
    /\ Init
    /\ [][NextPair]_vars
    /\ WF_vars(Initialize_StartReceive)
    /\ WF_vars(Initialize_StartHeartbeat)
    /\ WF_vars(Initialize_Return)
    /\ WF_vars(SetDetectionCallback)
    /\ WF_vars(Pair_Heartbeat)
    /\ WF_vars(Pair_PeerCleanup)
    /\ WF_vars(AdvanceClock)

(* ---------------- claims about the broadcast sequence ----------------- *)

\* C36: in the sequence of Detection messages the node broadcasts the
\* first is detected=true and every detected=false comes right after a
\* detected=true: two detected=false in a row never occur.
C36_FalseFollowsTrue ==
    /\ Len(pair.sent) >= 1 => (Len(pair.sent) = 1 => pair.sent[1])
    /\ Len(pair.sent) = 2 => (~pair.sent[2] => pair.sent[1])

\* a detected=false has been broadcast, after a detected=true
C36_Witness ==
    /\ pair.sent = <<TRUE, FALSE>>
    /\ alert_state_ = IDLE
    /\ tick.bcasts = <<FalseFrame>>

\* the peer has a record of the node and the record says it detects
PeerCountsNode ==
    /\ NodeId \in DOMAIN pair.peer_nodes
    /\ pair.peer_nodes[NodeId].detecting

PairTickStep == <<tick, detection_data_, pair.prev, coreVars>>'
                    # <<tick, detection_data_, pair.prev, coreVars>>

RunLoopStep == pc = "run" /\ <<tick, detection_data_, pc>>'
                                 # <<tick, detection_data_, pc>>
                          /\ pc' \in {"run", "chk"}

\* what a call of updateAlertState that takes no transition leaves
NothingDone ==
    /\ UNCHANGED coreVars
    /\ tick'.bcasts = <<>>
    /\ ~tick'.evaluated
    /\ tick'.reported = -1

\* C38: a call of updateAlertState that takes no transition changes
\* nothing: in IDLE without local detection, in ALERT without local detection
\* before alert_duration_sec has run out, and in PENDING with local detection
\* before the consensus window has run out, alert_state_,
\* consensus_start_time_ and alert_start_time_ keep their values, nothing is
\* broadcast and triggerAlert is not called.
C38_IdleTickChangesNothing ==
    /\ [][(RunLoopStep /\ alert_state_ = IDLE /\ ~detection_data_')
             => (NothingDone /\ pc' = "run")]_vars
    /\ [][(/\ RunLoopStep
           /\ alert_state_ = ALERT
           /\ ~detection_data_'
           /\ now - alert_start_time_ < config_.alert_duration_sec)
             => (NothingDone /\ pc' = "run")]_vars
    /\ [][(/\ RunLoopStep
           /\ alert_state_ = PENDING
           /\ detection_data_'
           /\ now - consensus_start_time_ < config_.consensus_timeout_sec)
             => (NothingDone /\ pc' = "chk")]_vars
    /\ [][(/\ pc = "chk"
           /\ pc' # "chk"
           /\ tick.pre = PENDING
           /\ alert_state_ = PENDING
           /\ now - consensus_start_time_ < config_.consensus_timeout_sec)
             => (NothingDone /\ pc' = "run" /\ tick' = tick)]_vars

\* a call in PENDING with local detection has returned before the window
\* ran out
C38_Witness ==
    /\ TickDone
    /\ tick.pre = PENDING
    /\ ~tick.due
    /\ ~tick.evaluated
    /\ tick.bcasts = <<>>
    /\ detection_data_
    /\ alert_state_ = PENDING
    /\ now - consensus_start_time_ < config_.consensus_timeout_sec

(* ============================= MQ2Sensor ============================== *)

\* the iterations of calibrate's warm-up loop (30 in the source)
WarmupReads == 2

\* the samples calibrate averages (50 in the source)
Samples == 2

\* RO_CLEAN_AIR, in thousandths of a kOhm
RO_CLEAN_AIR == 9830

\* RL_VALUE, in thousandths of a kOhm
RL_VALUE == 5000

\* the file descriptor open() returns when it succeeds
I2cFd == 3

\* What the ADC can hold for a read of two bytes: 0 and 12 (no more than
\* 0.01 V), 13, 1365 (a sensor resistance of 10 kOhm), 1365 with the four
\* unused bits set, and 4095 (full scale)
AdcBytes == {<<0, 0>>, <<0, 12>>, <<0, 13>>, <<5, 85>>, <<245, 85>>,
             <<15, 255>>}

\* readAnalog, line 108: ((buffer[0] & 0x0F) << 8) | buffer[1]
AdcValue(buffer) == (buffer[1] % 16) * 256 + buffer[2]

\* MQ2Sensor::readAnalog: the value returned, for the two bytes the device
\* holds and whether read() delivers them
ReadAnalog(is_init, fd, buffer, ok) ==
    IF ~is_init \/ fd < 0 THEN -1
    ELSE IF ~ok THEN -1
    ELSE AdcValue(buffer)

\* readAnalog reaches read(), line 102
ReadsDevice(is_init, fd) == is_init /\ fd >= 0

\* MQ2Sensor::getResistance on the value readAnalog returned, in thousandths
\* of a kOhm: voltage = analog / 4095 * 3.3 is at most 0.01 exactly when
\* 330 * analog <= 4095, and (3.3 - voltage) / voltage = (4095 - analog) /
\* analog
GetResistance(analog) ==
    IF analog < 0 THEN -1000
    ELSE IF 330 * analog <= 4095 THEN -1000
    ELSE ((4095 - analog) * RL_VALUE) \div analog

\* calibrate, line 83: rs_sum / samples / RO_CLEAN_AIR
CalibratedRo(rs_sum) == ((rs_sum \div Samples) * 1000) \div RO_CLEAN_AIR

\* calibrate, line 86: ro_ <= 0 || ro_ > 50
InvalidCalibration(ro) == ro <= 0 \/ ro > 50000

\* a reading of clean air: one that, sampled throughout, calibrates the
\* sensor
CleanAirReading(buffer) ==
    ~InvalidCalibration(
        CalibratedRo(Samples * GetResistance(AdcValue(buffer))))

\* the device holds a clean-air reading and delivers it when asked
DeviceValid == sensor.adc_ok /\ CleanAirReading(sensor.adc)

\* MQ2Sensor::MQ2Sensor, lines 17-22
MQ2_Construct ==
    /\ sensor.pc = "none"
    /\ sensor' = [sensor EXCEPT !.pc = "constructed", !.i2c_fd_ = -1,
                                !.ro_ = RO_CLEAN_AIR,
                                !.is_initialized_ = FALSE]
    /\ UNCHANGED <<codec, lockVars, pair, progVars>>

\* the ADC converts: the two bytes a read would deliver change, and read()
\* succeeds or fails
ADC_Convert ==
    /\ sensor.pc \notin {"none", "done"}
    /\ \E buffer \in AdcBytes, ok \in BOOLEAN :
           sensor' = [sensor EXCEPT !.adc = buffer, !.adc_ok = ok]
    /\ UNCHANGED <<codec, lockVars, pair, progVars>>

\* initialize, lines 33-38: open("/dev/i2c-1")
MQ2_Open ==
    /\ sensor.pc = "constructed"
    /\ \E fd \in {-1, I2cFd} :
           sensor' = IF fd < 0
                     THEN [sensor EXCEPT !.i2c_fd_ = fd, !.result = "false",
                                         !.pc = "done"]
                     ELSE [sensor EXCEPT !.i2c_fd_ = fd, !.opened = TRUE,
                                         !.pc = "ioctl"]
    /\ UNCHANGED <<codec, lockVars, pair, progVars>>

\* initialize, lines 41-49: ioctl(I2C_SLAVE); calibrate is called
MQ2_SetSlave ==
    /\ sensor.pc = "ioctl"
    /\ \E r \in {-1, 0} :
           sensor' = IF r < 0
                     THEN [sensor EXCEPT !.i2c_fd_ = -1, !.result = "false",
                                         !.pc = "done"]
                     ELSE [sensor EXCEPT !.addressed = TRUE, !.i = 0,
                                         !.pc = "warmup"]
    /\ UNCHANGED <<codec, lockVars, pair, progVars>>

\* calibrate, lines 65-74: one iteration of the warm-up loop; the value
\* readAnalog returns is dropped
MQ2_WarmUp ==
    /\ sensor.pc = "warmup"
    /\ sensor' = [sensor EXCEPT
                    !.reads = IF ReadsDevice(sensor.is_initialized_,
                                             sensor.i2c_fd_)
                              THEN @ + 1 ELSE @,
                    !.clean_air = @ /\ DeviceValid,
                    !.i = IF sensor.i + 1 < WarmupReads THEN @ + 1 ELSE 0,
                    !.rs_sum = 0,
                    !.pc = IF sensor.i + 1 < WarmupReads
                           THEN "warmup" ELSE "sample"]
    /\ UNCHANGED <<codec, lockVars, pair, progVars>>

\* calibrate, lines 77-81: one sample of getResistance is added to rs_sum
MQ2_Sample ==
    /\ sensor.pc = "sample"
    /\ sensor' = [sensor EXCEPT
                    !.reads = IF ReadsDevice(sensor.is_initialized_,
                                             sensor.i2c_fd_)
                              THEN @ + 1 ELSE @,
                    !.clean_air = @ /\ DeviceValid,
                    !.rs_sum = @ + GetResistance(
                                       ReadAnalog(sensor.is_initialized_,
                                                  sensor.i2c_fd_, sensor.adc,
                                                  sensor.adc_ok)),
                    !.i = @ + 1,
                    !.pc = IF sensor.i + 1 < Samples
                           THEN "sample" ELSE "validate"]
    /\ UNCHANGED <<codec, lockVars, pair, progVars>>

\* calibrate, lines 83-92, and initialize, lines 50-60: ro_ is computed and
\* validated; initialize closes the device and returns false, or sets
\* is_initialized_ and returns true
MQ2_Finish ==
    /\ sensor.pc = "validate"
    /\ sensor' = IF InvalidCalibration(CalibratedRo(sensor.rs_sum))
                 THEN [sensor EXCEPT !.ro_ = RO_CLEAN_AIR, !.i2c_fd_ = -1,
                                     !.result = "false", !.pc = "done"]
                 ELSE [sensor EXCEPT !.ro_ = CalibratedRo(sensor.rs_sum),
                                     !.is_initialized_ = TRUE,
                                     !.result = "true", !.pc = "done"]
    /\ UNCHANGED <<codec, lockVars, pair, progVars>>

NextSensor ==
    \/ MQ2_Construct
    \/ ADC_Convert
    \/ MQ2_Open
    \/ MQ2_SetSlave
    \/ MQ2_WarmUp
    \/ MQ2_Sample
    \/ MQ2_Finish

\* an MQ2Sensor is constructed and initialize() is called on it
SpecSensor == InitMesh /\ [][NextSensor]_vars

\* C40: when the I2C device has opened, the slave address has been set and
\* the ADC held a clean-air reading, delivered on request, at every read of
\* calibrate, initialize() returns true and leaves the sensor initialized,
\* and each of calibrate's reads reached the device.
C40_InitializeSucceeds ==
    (/\ sensor.pc = "done"
     /\ sensor.opened
     /\ sensor.addressed
     /\ sensor.clean_air)
        => (/\ sensor.result = "true"
            /\ sensor.is_initialized_
            /\ sensor.reads = WarmupReads + Samples)

=============================================================================
